---- MODULE Spec2Model ----
(***************************************************************************)
(* Verification model of versostat-pyscraper.                              *)
(*                                                                         *)
(* Spec      : SportsRefScraper._parse_table, one step per statement group *)
(*             (link extraction, read_html, header flattening, row filter, *)
(*             url columns, dtype inference, missing-value fill).          *)
(* SpecTypes : the typing of one column, through the scraper               *)
(*             (_set_df_dtypes, _fill_df_missing_values) and through       *)
(*             prepare_for_insert.                                         *)
(*                                                                         *)
(* SpecHeader: the header flattening and snake_case naming of             *)
(*             _parse_table on a two-level header.                         *)
(* SpecScrape: scrape_table: _fetch_html with its retries, the table       *)
(*             selection of _parse_table, then the steps of Spec.          *)
(* SpecTeams : crosswalk_player_id.match_team_names, one step per team.    *)
(* SpecPlayers: the player-matching loop of crosswalk_player_id.main, one  *)
(*             step per FPL player, on a team mapping and SM players.      *)
(* SpecMain  : crosswalk_player_id.main from the source tables to the      *)
(*             stored crosswalk table.                                     *)
(* SpecGameweek: the player loop of fpl_player_gameweek.main.              *)
(* SpecOverall: the team and player loops of sm_player_overall.main.       *)
(* SpecFetch : the request code of the three clients (_fetch_html,         *)
(*             _fetch_json, _make_request) on an integer clock.            *)
(* SpecRun   : index.run_scripts, one step per selected script.            *)
(*                                                                         *)
(* A text is a sequence of one-character strings, so that lower(),         *)
(* replace(), "in" and number parsing are computed on the characters.      *)
(* A number is held in hundredths (1.5 is 150), which keeps the            *)
(* fractional part of every literal with at most two decimals.             *)
(***************************************************************************)
EXTENDS Integers, Sequences, FiniteSets, TLC

VARIABLES
    pc,               \* position inside _parse_table
    table,            \* the selected <table>: header levels and body rows
    urls_data,        \* _extract_table_urls result: row idx -> col idx -> href
    df,               \* the DataFrame: a sequence of columns
    original_columns, \* the labels before snake_case (set of texts)
    tpc,              \* position inside the typing of one column
    tmode,            \* which typing code runs on the column
    tcells,           \* the column's cell texts, one per body row
    tkeep,            \* which body rows the row filter retained
    tcol,             \* the column as the typing code holds it
    hpc,              \* position inside the header naming
    hheader,          \* the two-level header as read_html parsed it
    hlabels,          \* df.columns after the flattening comprehension
    hnames,           \* df.columns after _to_snake_case
    spc,              \* position inside scrape_table
    page,             \* the table.stats_table elements of the page
    has_table_text,   \* whether the page text contains "table"
    table_index,      \* the table_index argument
    attempt,          \* loop variable of _fetch_html
    err,              \* the exception scrape_table raised, if any
    parses,           \* how many times _parse_table was entered
    kpc,              \* position inside match_team_names / the player loop
    fpl_teams,        \* match_team_names argument
    sm_teams,         \* match_team_names argument
    wratio,           \* fuzz.WRatio on the names at hand
    team_mapping,     \* FPL team name -> SM team name
    unmatched,        \* match_team_names: the unmatched list
    fpl_players,      \* rows of fpl_player
    sm_players,       \* rows of sm_player_overall
    sm_team_index,    \* build_sm_team_index result
    loop,             \* the player loop: position, crosswalk_rows, stats
    main_exc,         \* the message of the exception main raised, if any
    db_calls,         \* the PostgresClient calls main made on the crosswalk table
    db_table,         \* the crosswalk_player_id table held by the database
    wratio_players,   \* fuzz.WRatio on the player names, for the loop of main
    gpc,              \* position inside fpl_player_gameweek.main
    gw_players,       \* the bootstrap elements: what each player's summary gives
    state,            \* the loop index and the ProcessingState
    gw_inserts,       \* the insert_dataframe_rows calls made, in order
    gw_errors,        \* the players whose exception was logged
    opc,              \* position inside sm_player_overall.main
    teams,            \* api.get_teams(): what each team's requests give
    team_i,           \* how many teams the loop has taken
    all_player_stats, \* the rows collected, as (team, player) positions
    sm_errors,        \* the players whose exception was logged
    sm_stored,        \* the rows inserted into sm_player_overall
    fpc,              \* position of the script and of the fetcher it calls
    client,           \* the class of the client instance
    retries,          \* the retries argument of _fetch_html / _fetch_json
    now,              \* time.time(), in seconds
    last_request_time, \* self._last_request_time
    f_attempt,        \* loop variable of the fetcher
    call,             \* the call under way: its requests, responses, sleeps
    issued,           \* the times at which the last two requests were issued
    rpc,              \* position inside run_scripts
    scripts,          \* the scripts argument of run_scripts
    scripts_to_run,   \* the list run_scripts resolved it to
    outcomes,         \* per attempted script: "returned" or "raised"
    successful,       \* run_scripts: the successful list
    failed            \* run_scripts: the failed list

tableVars == <<pc, table, urls_data, df, original_columns>>

typeVars == <<tpc, tmode, tcells, tkeep, tcol>>

headVars == <<hpc, hheader, hlabels, hnames>>

scrapeVars == <<spc, page, has_table_text, table_index, attempt, err, parses>>

crosswalkVars == <<kpc, fpl_teams, sm_teams, wratio, team_mapping, unmatched,
                   fpl_players, sm_players, sm_team_index, loop>>

sideVars == <<headVars, scrapeVars, crosswalkVars>>

mainVars == <<main_exc, db_calls, db_table, wratio_players>>

gameweekVars == <<gpc, gw_players, state, gw_inserts, gw_errors>>

overallVars == <<opc, teams, team_i, all_player_stats, sm_errors, sm_stored>>

fetchVars == <<fpc, client, retries, now, last_request_time, f_attempt, call,
               issued>>

runVars == <<rpc, scripts, scripts_to_run, outcomes, successful, failed>>

restVars == <<mainVars, gameweekVars, overallVars, fetchVars, runVars>>

vars == <<tableVars, typeVars, sideVars, restVars>>

(***************************************************************************)
(* The values of the variables of the code that is not running.            *)
(***************************************************************************)
HeadIdle ==
    /\ hpc = "idle"
    /\ hheader = <<>>
    /\ hlabels = <<>>
    /\ hnames = <<>>

NoError == [kind |-> "none", msg |-> "none"]

ScrapeIdle ==
    /\ spc = "idle"
    /\ page = <<>>
    /\ has_table_text = FALSE
    /\ table_index = 0
    /\ attempt = 0
    /\ err = NoError
    /\ parses = 0

\* the loop index, crosswalk_rows and stats of main, and per pass of the loop
\* how many fuzzy_extract_one calls it made (scored) and how many crosswalk
\* rows and unmatched reports it appended (appended)
LoopIdle == [i |-> 0, crosswalk_rows |-> <<>>, matched |-> 0, unmatched |-> 0,
             unmatched_players |-> <<>>, scored |-> <<>>, appended |-> <<>>]

\* the table as an earlier run stored it
PreviousTable == <<[fpl_player_id |-> 0, sm_player_id |-> 0]>>

MainIdle ==
    /\ main_exc = "none"
    /\ db_calls = <<>>
    /\ db_table = PreviousTable
    /\ wratio_players = <<>>

\* reference_columns None is the empty list: a frame has its key column
StateIdle == [idx |-> 0, table_created |-> FALSE, total_rows |-> 0,
              reference_columns |-> <<>>]

GameweekIdle ==
    /\ gpc = "idle"
    /\ gw_players = <<>>
    /\ state = StateIdle
    /\ gw_inserts = <<>>
    /\ gw_errors = <<>>

OverallIdle ==
    /\ opc = "idle"
    /\ teams = <<>>
    /\ team_i = 0
    /\ all_player_stats = <<>>
    /\ sm_errors = <<>>
    /\ sm_stored = <<>>

\* no call made yet
NoCall == [k |-> 0, requests |-> 0, responses |-> <<>>, sleeps |-> <<>>,
           result |-> "none"]

FetchIdle ==
    /\ fpc = "off"
    /\ client = "none"
    /\ retries = 0
    /\ now = 0
    /\ last_request_time = 0
    /\ f_attempt = 0
    /\ call = NoCall
    /\ issued = <<>>

RunIdle ==
    /\ rpc = "idle"
    /\ scripts = <<>>
    /\ scripts_to_run = <<>>
    /\ outcomes = <<>>
    /\ successful = <<>>
    /\ failed = <<>>

RestIdle ==
    /\ MainIdle
    /\ GameweekIdle
    /\ OverallIdle
    /\ FetchIdle
    /\ RunIdle

CrosswalkIdle ==
    /\ kpc = "idle"
    /\ fpl_teams = <<>>
    /\ sm_teams = <<>>
    /\ wratio = <<>>
    /\ team_mapping = <<>>
    /\ unmatched = <<>>
    /\ fpl_players = <<>>
    /\ sm_players = <<>>
    /\ sm_team_index = <<>>
    /\ loop = LoopIdle

(***************************************************************************)
(* Bounds of the model.                                                    *)
(***************************************************************************)
MaxRows == 3
MaxCells == 4

(***************************************************************************)
(* Texts.                                                                  *)
(***************************************************************************)
Digits == <<"0", "1", "2", "3", "4", "5", "6", "7", "8", "9">>

UpperCase == <<"A", "B", "C", "D", "E", "F", "G", "H", "I", "J", "K", "L", "M",
               "N", "O", "P", "Q", "R", "S", "T", "U", "V", "W", "X", "Y", "Z">>

LowerCase == <<"a", "b", "c", "d", "e", "f", "g", "h", "i", "j", "k", "l", "m",
               "n", "o", "p", "q", "r", "s", "t", "u", "v", "w", "x", "y", "z">>

Range(f) == {f[i] : i \in DOMAIN f}

ToLowerChar(c) ==
    IF \E i \in DOMAIN UpperCase : UpperCase[i] = c
    THEN LowerCase[CHOOSE i \in DOMAIN UpperCase : UpperCase[i] = c]
    ELSE c

\* str.lower()
StrLower(s) == [i \in 1..Len(s) |-> ToLowerChar(s[i])]

\* sub in s
StrContains(s, sub) ==
    \E i \in 0..(Len(s) - Len(sub)) : SubSeq(s, i + 1, i + Len(sub)) = sub

\* s.startswith(p)
StartsWith(s, p) == Len(s) >= Len(p) /\ SubSeq(s, 1, Len(p)) = p

\* str.replace(a, b) for one-character a and b
StrReplace(s, a, b) == [i \in 1..Len(s) |-> IF s[i] = a THEN b ELSE s[i]]

\* str.strip(): leading and trailing blanks removed
StrStrip(s) ==
    LET nonblank == {i \in 1..Len(s) : s[i] # " "}
    IN  IF nonblank = {} THEN <<>>
        ELSE SubSeq(s, CHOOSE i \in nonblank : \A j \in nonblank : i <= j,
                       CHOOSE i \in nonblank : \A j \in nonblank : i >= j)

RECURSIVE StrJoin(_, _)
\* sep.join(parts)
StrJoin(parts, sep) ==
    IF parts = <<>> THEN <<>>
    ELSE IF Len(parts) = 1 THEN parts[1]
    ELSE parts[1] \o sep \o StrJoin(Tail(parts), sep)

RECURSIVE SelectIdx(_, _, _)
\* the indices i of 1..n, ascending from i, for which keep[i] holds
SelectIdx(i, n, keep) ==
    IF i > n THEN <<>>
    ELSE IF keep[i] THEN <<i>> \o SelectIdx(i + 1, n, keep)
    ELSE SelectIdx(i + 1, n, keep)

(***************************************************************************)
(* Cell values of a DataFrame: missing, text, number or boolean.           *)
(***************************************************************************)
NA == [t |-> "na", s |-> <<>>, v |-> 0]

StrV(s) == [t |-> "str", s |-> s, v |-> 0]

NumV(n) == [t |-> "num", s |-> <<>>, v |-> n]

BoolV(b) == [t |-> "bool", s |-> <<>>, v |-> IF b THEN 1 ELSE 0]

Column(name, dtype, vals) == [name |-> name, dtype |-> dtype, vals |-> vals]

(***************************************************************************)
(* Number parsing, as pandas parses a cell text: digits with at most one   *)
(* decimal point.                                                          *)
(***************************************************************************)
IsDigit(c) == c \in Range(Digits)

DigitVal(c) == (CHOOSE i \in DOMAIN Digits : Digits[i] = c) - 1

RECURSIVE NatVal(_)
NatVal(s) ==
    IF s = <<>> THEN 0
    ELSE NatVal(SubSeq(s, 1, Len(s) - 1)) * 10 + DigitVal(s[Len(s)])

HasDot(s) == \E i \in 1..Len(s) : s[i] = "."

DotPos(s) == CHOOSE i \in 1..Len(s) : s[i] = "."

ParsesAsNumber(s) ==
    /\ \E i \in 1..Len(s) : IsDigit(s[i])
    /\ \A i \in 1..Len(s) : IsDigit(s[i]) \/ s[i] = "."
    /\ Cardinality({i \in 1..Len(s) : s[i] = "."}) <= 1
    /\ HasDot(s) => Len(s) - DotPos(s) <= 2

\* the parsed number, in hundredths
NumberOf(s) ==
    IF ~HasDot(s) THEN NatVal(s) * 100
    ELSE LET whole == SubSeq(s, 1, DotPos(s) - 1)
             frac  == SubSeq(s, DotPos(s) + 1, Len(s))
         IN  NatVal(whole) * 100
             + (IF Len(frac) = 1 THEN NatVal(frac) * 10 ELSE NatVal(frac))

IsWhole(n) == n % 100 = 0

TrueTexts == {<<"T", "r", "u", "e">>, <<"T", "R", "U", "E">>, <<"t", "r", "u", "e">>}

FalseTexts == {<<"F", "a", "l", "s", "e">>, <<"F", "A", "L", "S", "E">>,
               <<"f", "a", "l", "s", "e">>}

\* the parser's missing-value marker among the texts of the model
IsNaText(s) == s = <<>>

(***************************************************************************)
(* pandas, as the scraper and prepare_for_insert use it, on one column.    *)
(***************************************************************************)
NotNaIdx(vals) == {i \in 1..Len(vals) : vals[i].t # "na"}

\* series.notna().sum()
NotNaCount(vals) == Cardinality(NotNaIdx(vals))

\* pd.read_html: the parser types each column from all its body cells
ParserColumn(name, texts) ==
    LET n       == Len(texts)
        present == {i \in 1..n : ~IsNaText(texts[i])}
        allNum  == \A i \in present : ParsesAsNumber(texts[i])
        allBool == \A i \in present : texts[i] \in TrueTexts \cup FalseTexts
    IN  IF n = 0 THEN Column(name, "object", <<>>)
        ELSE IF allNum THEN
            Column(name,
                   IF present = 1..n /\ \A i \in present : ~HasDot(texts[i])
                   THEN "int64" ELSE "float64",
                   [i \in 1..n |-> IF i \in present
                                   THEN NumV(NumberOf(texts[i])) ELSE NA])
        ELSE IF allBool THEN
            Column(name,
                   IF present = 1..n THEN "bool" ELSE "object",
                   [i \in 1..n |-> IF i \in present
                                   THEN BoolV(texts[i] \in TrueTexts) ELSE NA])
        ELSE
            Column(name, "object",
                   [i \in 1..n |-> IF i \in present THEN StrV(texts[i]) ELSE NA])

\* pd.to_numeric(value, errors="coerce") on one cell of an object column
CoerceCell(x) ==
    IF x.t = "str"
    THEN (IF ParsesAsNumber(x.s) THEN NumV(NumberOf(x.s)) ELSE NA)
    ELSE IF x.t = "bool" THEN NumV(x.v * 100)
    ELSE x

\* pd.to_numeric(series, errors="coerce")
ToNumeric(col) ==
    IF col.dtype \in {"int64", "float64", "bool", "Int64", "Float64", "boolean"}
    THEN col
    ELSE LET n       == Len(col.vals)
             out     == [i \in 1..n |-> CoerceCell(col.vals[i])]
             isFloat == \E i \in 1..n :
                            \/ out[i].t = "na"
                            \/ col.vals[i].t = "str" /\ HasDot(col.vals[i].s)
         IN  IF n > 0 /\ \A i \in 1..n : col.vals[i].t = "bool"
             THEN Column(col.name, "bool", col.vals)
             ELSE Column(col.name, IF isFloat THEN "float64" ELSE "int64", out)

\* DataFrame.convert_dtypes() on one column
ConvertDtypes(col) ==
    LET present == NotNaIdx(col.vals)
    IN  IF col.dtype = "int64" THEN Column(col.name, "Int64", col.vals)
        ELSE IF col.dtype = "float64" THEN
            Column(col.name,
                   IF \A i \in present : IsWhole(col.vals[i].v)
                   THEN "Int64" ELSE "Float64",
                   col.vals)
        ELSE IF col.dtype = "bool" THEN Column(col.name, "boolean", col.vals)
        ELSE IF col.dtype = "object" THEN
            Column(col.name,
                   IF present = {} THEN "object"
                   ELSE IF \A i \in present : col.vals[i].t = "str" THEN "string"
                   ELSE IF \A i \in present : col.vals[i].t = "bool" THEN "boolean"
                   ELSE "object",
                   col.vals)
        ELSE col

IsNumberDtype(dtype) == dtype \in {"int64", "float64", "Int64", "Float64"}

FillNa(col, x) ==
    Column(col.name, col.dtype,
           [i \in 1..Len(col.vals) |->
               IF col.vals[i].t = "na" THEN x ELSE col.vals[i]])

(***************************************************************************)
(* SportsRefScraper, on one column.                                        *)
(***************************************************************************)
\* df[mask] on one column: the cells of the retained rows, in order
TakeRows(col, rows) ==
    Column(col.name, col.dtype, [j \in 1..Len(rows) |-> col.vals[rows[j]]])

\* _set_df_dtypes, the loop body: numeric when enough cells converted
NumericOrOriginal(col) ==
    LET numeric_col == ToNumeric(col)
    IN  IF NotNaCount(numeric_col.vals) * 2 >= Len(col.vals)
        THEN numeric_col ELSE col

\* _set_df_dtypes on one column
SetColumnDtype(col) == ConvertDtypes(NumericOrOriginal(col))

\* df.fillna("") meets a boolean column with a missing cell
FillRaises(col) == col.dtype = "boolean" /\ NotNaIdx(col.vals) # 1..Len(col.vals)

\* FillColumn without the fillna(0) of the numeric columns
FillColumnNoZero(col) == FillNa(col, StrV(<<>>))

\* _fill_df_missing_values on one column
FillColumn(col) ==
    IF IsNumberDtype(col.dtype) THEN FillNa(col, NumV(0))
    ELSE FillNa(col, StrV(<<>>))

(***************************************************************************)
(* prepare_for_insert, on one column.                                      *)
(***************************************************************************)
\* pd.api.types.is_numeric_dtype
IsNumericDtype(dtype) == IsNumberDtype(dtype) \/ dtype \in {"bool", "boolean"}

\* pd.api.types.is_string_dtype of the column
IsStringColumn(col) ==
    \/ col.dtype = "string"
    \/ /\ col.dtype = "object"
       /\ \A i \in 1..Len(col.vals) : col.vals[i].t = "str"

\* series.astype(str).str.contains(r"\.").any()
LooksLikeDecimal(col) ==
    \E i \in 1..Len(col.vals) : col.vals[i].t = "str" /\ HasDot(col.vals[i].s)

\* the "restore numeric dtypes" loop body
RestoreNumeric(original, col) ==
    IF IsNumericDtype(original.dtype) /\ IsStringColumn(col)
    THEN Column(col.name,
                IF original.dtype \in {"int64", "Int64"} THEN "Int64" ELSE "Float64",
                ToNumeric(Column(col.name, "object", col.vals)).vals)
    ELSE col

\* the "convert string columns that contain numeric values" loop body
ConvertStringColumn(original, col) ==
    IF IsNumericDtype(original.dtype) \/ ~IsStringColumn(col) THEN col
    ELSE LET converted       == ToNumeric(Column(col.name, "object", col.vals))
             non_null_count  == NotNaCount(col.vals)
             converted_count == NotNaCount(converted.vals)
         IN  IF non_null_count > 0 /\ converted_count * 2 >= non_null_count
             THEN Column(col.name,
                         IF /\ converted_count > 0
                            /\ \A i \in NotNaIdx(converted.vals) :
                                   IsWhole(converted.vals[i].v)
                            /\ ~LooksLikeDecimal(col)
                         THEN "Int64" ELSE "Float64",
                         converted.vals)
             ELSE col

\* the "fill missing values based on dtype" loop body
InsertFill(col) ==
    IF col.dtype = "boolean" THEN FillNa(col, BoolV(FALSE))
    ELSE IF col.dtype \in {"int64", "float64", "Int64", "Float64"}
    THEN FillNa(col, NumV(0))
    ELSE FillNa(col, StrV(<<>>))

\* prepare_for_insert on one column
PrepareColumn(col) ==
    InsertFill(ConvertStringColumn(col, RestoreNumeric(col, ConvertDtypes(col))))

(***************************************************************************)
(* SpecTypes: one column of cell texts through the typing code.            *)
(***************************************************************************)
T_Empty == <<>>

T_Int == <<"1">>

T_Zero00 == <<"0", ".", "0", "0">>

T_One00 == <<"1", ".", "0", "0">>

T_Frac == <<"2", ".", "5">>

T_Word == <<"a", "b", "c">>

T_True == <<"T", "r", "u", "e">>

CellTexts == {T_Empty, T_Int, T_Zero00, T_One00, T_Frac, T_Word, T_True}

TypingModes == {"scraper", "insert_parsed", "insert_strings", "insert_none"}

\* the column handed to the typing code: the table's cells for the scraper;
\* for prepare_for_insert a DataFrame column that was parsed from the texts,
\* or holds them as strings with an empty cell as "" or as None
InputColumn(mode, texts) ==
    IF mode = "scraper" THEN
        Column(<<>>, "html", [i \in 1..Len(texts) |-> StrV(texts[i])])
    ELSE IF mode = "insert_parsed" THEN ParserColumn(<<>>, texts)
    ELSE IF mode = "insert_strings" THEN
        Column(<<>>, "object", [i \in 1..Len(texts) |-> StrV(texts[i])])
    ELSE
        Column(<<>>, "object",
               [i \in 1..Len(texts) |->
                   IF texts[i] = <<>> THEN NA ELSE StrV(texts[i])])

IdleTable == [header |-> <<>>, rows |-> <<>>]

TypesInit ==
    /\ RestIdle
    /\ pc = "idle"
    /\ table = IdleTable
    /\ urls_data = <<>>
    /\ df = <<>>
    /\ original_columns = {}
    /\ tpc = "raw"
    /\ tmode \in TypingModes
    /\ tcells \in UNION {[1..n -> CellTexts] : n \in 0..MaxCells}
    /\ tkeep = [i \in 1..Len(tcells) |-> TRUE]
    /\ tcol = InputColumn(tmode, tcells)
    /\ HeadIdle
    /\ ScrapeIdle
    /\ CrosswalkIdle

\* _parse_table line 79, on the column
TReadHtml ==
    /\ tpc = "raw"
    /\ tmode = "scraper"
    /\ tcol' = ParserColumn(<<>>, tcells)
    /\ tpc' = "read"
    /\ UNCHANGED <<restVars, tableVars, sideVars, tmode, tcells, tkeep>>

\* _parse_table line 100, on the column: the rows the filter retains are
\* decided by the first column
TFilterRows ==
    /\ tpc = "read"
    /\ \E keep \in [1..Len(tcells) -> BOOLEAN] :
          /\ tkeep' = keep
          /\ tcol' = TakeRows(tcol, SelectIdx(1, Len(tcells), keep))
    /\ tpc' = "filtered"
    /\ UNCHANGED <<restVars, tableVars, sideVars, tmode, tcells>>

\* _parse_table line 109, on the column
TSetDtypes ==
    /\ tpc = "filtered"
    /\ tcol' = SetColumnDtype(tcol)
    /\ tpc' = "typed"
    /\ UNCHANGED <<restVars, tableVars, sideVars, tmode, tcells, tkeep>>

\* _parse_table line 110, on the column. Whether df.fillna("") stores the
\* text in a boolean column or raises TypeError depends on the installed
\* pandas: both outcomes are modelled.
TFillMissing ==
    /\ tpc = "typed"
    /\ \/ tpc' = "done" /\ tcol' = FillColumn(tcol)
       \/ FillRaises(tcol) /\ tpc' = "failed" /\ tcol' = tcol
    /\ UNCHANGED <<restVars, tableVars, sideVars, tmode, tcells, tkeep>>

\* prepare_for_insert, on the column
TPrepareForInsert ==
    /\ tpc = "raw"
    /\ tmode # "scraper"
    /\ tcol' = PrepareColumn(tcol)
    /\ tpc' = "done"
    /\ UNCHANGED <<restVars, tableVars, sideVars, tmode, tcells, tkeep>>

TypesNext ==
    \/ TReadHtml
    \/ TFilterRows
    \/ TSetDtypes
    \/ TFillMissing
    \/ TPrepareForInsert

SpecTypes == TypesInit /\ [][TypesNext]_vars

(***************************************************************************)
(* The table: header cells by column and level, body rows of physical      *)
(* cells, each with its text, its hyperlinks in document order and its     *)
(* colspan.                                                                *)
(***************************************************************************)
L_Squad == <<"S", "q", "u", "a", "d">>

L_Gls == <<"G", "l", "s">>

L_MatchReport == <<"M", "a", "t", "c", "h", " ", "R", "e", "p", "o", "r", "t">>

L_Unnamed == <<"U", "n", "n", "a", "m", "e", "d", ":", " ", "0", "_",
               "l", "e", "v", "e", "l", "_", "0">>

L_PlayingTime == <<"P", "l", "a", "y", "i", "n", "g", " ", "T", "i", "m", "e">>

L_MP == <<"M", "P">>

L_Min == <<"M", "i", "n">>

X_SquadTotal == <<"S", "q", "u", "a", "d", " ", "T", "o", "t", "a", "l">>

X_LowerSquad == <<"s", "q", "u", "a", "d">>

X_Total == <<"T", "o", "t", "a", "l">>

X_One == <<"1">>

OneLevelHeader == <<<<L_Squad>>, <<L_Gls>>, <<L_MatchReport>>>>

TwoLevelHeader == <<<<L_Unnamed, L_Squad>>, <<L_PlayingTime, L_MP>>,
                    <<L_PlayingTime, L_Min>>>>

Headers == {OneLevelHeader, TwoLevelHeader}

Cell(text, hrefs, colspan) == [text |-> text, hrefs |-> hrefs, colspan |-> colspan]

\* the hyperlinks of physical cell k (from 0) of body row r (from 0)
Hrefs(r, k) == <<<<"/", Digits[r + 1], Digits[k + 1], "a">>,
                 <<"/", Digits[r + 1], Digits[k + 1], "b">>>>

TeamName(r) == <<UpperCase[r + 1]>>

RowKinds == {"data", "plain", "total", "header", "lower", "tot3", "span"}

\* body row r (from 0) of a kind, in a table whose columns linkCols carry links
MakeRow(kind, r, header, linkCols) ==
    LET link(k, c) == IF c \in linkCols THEN Hrefs(r, k) ELSE <<>>
        last(c)    == header[c][Len(header[c])]
    IN  CASE kind = "data"   -> <<Cell(TeamName(r), link(0, 1), 1),
                                  Cell(X_One, link(1, 2), 1),
                                  Cell(X_One, link(2, 3), 1)>>
          [] kind = "plain"  -> <<Cell(TeamName(r), <<>>, 1),
                                  Cell(X_One, <<>>, 1),
                                  Cell(X_One, <<>>, 1)>>
          [] kind = "total"  -> <<Cell(X_SquadTotal, link(0, 1), 1),
                                  Cell(X_One, link(1, 2), 1),
                                  Cell(X_One, link(2, 3), 1)>>
          [] kind = "header" -> <<Cell(last(1), <<>>, 1),
                                  Cell(last(2), <<>>, 1),
                                  Cell(last(3), <<>>, 1)>>
          [] kind = "lower"  -> <<Cell(X_LowerSquad, link(0, 1), 1),
                                  Cell(X_One, link(1, 2), 1),
                                  Cell(X_One, link(2, 3), 1)>>
          [] kind = "tot3"   -> <<Cell(TeamName(r), link(0, 1), 1),
                                  Cell(X_One, link(1, 2), 1),
                                  Cell(X_Total, link(2, 3), 1)>>
          [] kind = "span"   -> <<Cell(TeamName(r), link(0, 1), 2),
                                  Cell(X_One, link(1, 3), 1)>>

Tables ==
    {[header |-> h,
      rows   |-> [i \in 1..Len(kinds) |-> MakeRow(kinds[i], i - 1, h, linkCols)]] :
        h \in Headers,
        linkCols \in SUBSET (1..3),
        kinds \in UNION {[1..n -> RowKinds] : n \in 1..MaxRows}}

(***************************************************************************)
(* SportsRefScraper._parse_table and its helpers.                          *)
(***************************************************************************)
RECURSIVE SortedSeq(_)
\* sorted(set)
SortedSeq(S) ==
    IF S = {} THEN <<>>
    ELSE LET m == CHOOSE x \in S : \A y \in S : x <= y
         IN  <<m>> \o SortedSeq(S \ {m})

\* _extract_table_urls: for each body row and each physical cell, the first
\* <a href>; rows and cells without a link have no entry
ExtractTableUrls(rows) ==
    LET linked(r) == {k \in 0..(Len(rows[r + 1]) - 1) : rows[r + 1][k + 1].hrefs # <<>>}
    IN  [r \in {q \in 0..(Len(rows) - 1) : linked(q) # {}} |->
            [k \in linked(r) |-> Head(rows[r + 1][k + 1].hrefs)]]

RECURSIVE ExpandColspan(_)
\* pd.read_html: a cell's text is repeated over the columns it spans
ExpandColspan(cells) ==
    IF cells = <<>> THEN <<>>
    ELSE [i \in 1..Head(cells).colspan |-> Head(cells).text]
         \o ExpandColspan(Tail(cells))

\* the df.columns comprehension of _parse_table: levels that are blank or
\* start with "Unnamed" are skipped, the others joined with "_"
FlattenLabel(levels) ==
    LET keep(level) == StrStrip(level) # <<>>
                       /\ ~StartsWith(level, <<"U", "n", "n", "a", "m", "e", "d">>)
    IN  StrJoin(SelectSeq(levels, keep), <<"_">>)

\* the labels of df.columns before snake_case: flattened when the header has
\* several levels (a MultiIndex), as read otherwise
ColumnLabels(header) ==
    [c \in 1..Len(header) |->
        IF Len(header[c]) > 1 THEN FlattenLabel(header[c]) ELSE header[c][1]]

\* _to_snake_case
ToSnakeCase(text) ==
    StrLower(StrReplace(StrReplace(StrStrip(text), " ", "_"), "/", "_"))

TrackingName == <<"_", "o", "r", "i", "g", "i", "n", "a", "l", "_", "r", "o", "w",
                  "_", "i", "d", "x">>

UrlSuffix == <<"_", "u", "r", "l">>

\* _parse_table lines 79-98: read_html, flattened snake_case names, and the
\* tracking column of original row indices
ReadTable(t) ==
    LET texts(c) == [r \in 1..Len(t.rows) |-> ExpandColspan(t.rows[r])[c]]
        labels   == ColumnLabels(t.header)
    IN  [c \in 1..Len(t.header) |-> ParserColumn(ToSnakeCase(labels[c]), texts(c))]
        \o <<Column(TrackingName, "int64",
                    [r \in 1..Len(t.rows) |-> NumV((r - 1) * 100)])>>

RECURSIVE NatStr(_)
\* str() of a natural number
NatStr(k) ==
    IF k < 10 THEN <<Digits[k + 1]>>
    ELSE NatStr(k \div 10) \o <<Digits[(k % 10) + 1]>>

\* str() of a cell value of a column
PyStr(x, dtype) ==
    IF x.t = "str" THEN x.s
    ELSE IF x.t = "bool"
    THEN (IF x.v = 1 THEN <<"T", "r", "u", "e">> ELSE <<"F", "a", "l", "s", "e">>)
    ELSE IF dtype = "int64" THEN NatStr(x.v \div 100)
    ELSE NatStr(x.v \div 100) \o <<".">>
         \o (IF x.v % 10 = 0 THEN <<Digits[((x.v % 100) \div 10) + 1]>>
             ELSE <<Digits[((x.v % 100) \div 10) + 1], Digits[(x.v % 10) + 1]>>)

\* IsDataRow without lower(): "total" is looked for case-sensitively
IsDataRowCaseSensitive(x, dtype, labels) ==
    LET first_val == IF x.t # "na" THEN PyStr(x, dtype) ELSE <<>>
    IN  /\ ~StrContains(first_val, <<"t", "o", "t", "a", "l">>)
        /\ first_val \notin labels

\* IsDataRow comparing with the snake_case names instead of the labels
IsDataRowSnakeLabels(x, dtype, labels) ==
    LET first_val == IF x.t # "na" THEN PyStr(x, dtype) ELSE <<>>
    IN  /\ ~StrContains(StrLower(first_val), <<"t", "o", "t", "a", "l">>)
        /\ first_val \notin {ToSnakeCase(l) : l \in labels}

\* is_data_row of _filter_non_data_rows, on the first column's cell
IsDataRow(x, dtype, labels) ==
    LET first_val == IF x.t # "na" THEN PyStr(x, dtype) ELSE <<>>
    IN  /\ ~StrContains(StrLower(first_val), <<"t", "o", "t", "a", "l">>)
        /\ first_val \notin labels

\* _filter_non_data_rows
FilterNonDataRows(d, labels) ==
    LET keep == [r \in 1..Len(d[1].vals) |->
                    IsDataRow(d[1].vals[r], d[1].dtype, labels)]
        rows == SelectIdx(1, Len(d[1].vals), keep)
    IN  [c \in 1..Len(d) |-> TakeRows(d[c], rows)]

\* df.insert(loc, column, value)
InsertColumn(d, loc, col) == SubSeq(d, 1, loc) \o <<col>> \o SubSeq(d, loc + 1, Len(d))

\* AddUrlColumn aligning the links by the position of the row in the
\* filtered frame instead of its original index
AddUrlColumnPositional(d, urls, col_idx) ==
    LET col_name     == d[col_idx + 1].name
        url(j)       ==
            IF (j - 1) \in DOMAIN urls
            THEN (IF col_idx \in DOMAIN urls[j - 1]
                  THEN urls[j - 1][col_idx] ELSE <<>>)
            ELSE <<>>
        url_values   == [j \in 1..Len(d[1].vals) |-> StrV(url(j))]
        positions    == {i \in 1..Len(d) : d[i].name = col_name}
        insert_position ==
            IF Cardinality(positions) = 1
            THEN (CHOOSE i \in positions : TRUE) ELSE 0
    IN  InsertColumn(d, insert_position,
                     Column(col_name \o UrlSuffix, "object", url_values))

\* the body of the "Add URL columns" loop of _add_url_columns for one col_idx
AddUrlColumn(d, urls, col_idx) ==
    LET col_name     == d[col_idx + 1].name
        url_col_name == col_name \o UrlSuffix
        tracking     == d[CHOOSE i \in 1..Len(d) : d[i].name = TrackingName]
        url(j)       ==
            LET original_row_idx == tracking.vals[j].v \div 100
            IN  IF original_row_idx \in DOMAIN urls
                THEN (IF col_idx \in DOMAIN urls[original_row_idx]
                      THEN urls[original_row_idx][col_idx] ELSE <<>>)
                ELSE <<>>
        url_values   == [j \in 1..Len(tracking.vals) |-> StrV(url(j))]
        positions    == {i \in 1..Len(d) : d[i].name = col_name}
        insert_position ==
            IF Cardinality(positions) = 1
            THEN (CHOOSE i \in positions : TRUE) ELSE 0
    IN  InsertColumn(d, insert_position, Column(url_col_name, "object", url_values))

RECURSIVE AddUrlLoop(_, _, _)
\* the "Add URL columns" loop, over the sorted column indices
AddUrlLoop(d, urls, idxs) ==
    IF idxs = <<>> THEN d
    ELSE AddUrlLoop(AddUrlColumn(d, urls, Head(idxs)), urls, Tail(idxs))

\* _add_url_columns
AddUrlColumns(d, urls) ==
    LET all_with_urls     == UNION {DOMAIN urls[r] : r \in DOMAIN urls}
        columns_with_urls == {idx \in all_with_urls : idx < Len(d) - 1}
    IN  IF DOMAIN urls = {} THEN d
        ELSE AddUrlLoop(d, urls, SortedSeq(columns_with_urls))

\* df.drop(columns=["_original_row_idx"]).reset_index(drop=True)
DropTracking(d) == SelectSeq(d, LAMBDA col : col.name # TrackingName)

\* _set_df_dtypes
SetDfDtypes(d) == [c \in 1..Len(d) |-> SetColumnDtype(d[c])]

\* _fill_df_missing_values
FillDfMissingValues(d) == [c \in 1..Len(d) |-> FillColumn(d[c])]

(***************************************************************************)
(* Spec: _parse_table on one table.                                        *)
(***************************************************************************)
IdleColumn == Column(<<>>, "object", <<>>)

Init ==
    /\ RestIdle
    /\ pc = "start"
    /\ table \in Tables
    /\ urls_data = <<>>
    /\ df = <<>>
    /\ original_columns = {}
    /\ tpc = "idle"
    /\ tmode = "scraper"
    /\ tcells = <<>>
    /\ tkeep = <<>>
    /\ tcol = IdleColumn
    /\ HeadIdle
    /\ ScrapeIdle
    /\ CrosswalkIdle

\* line 77
ExtractUrls ==
    /\ pc = "start"
    /\ urls_data' = ExtractTableUrls(table.rows)
    /\ pc' = "extracted"
    /\ UNCHANGED <<restVars, table, df, original_columns, typeVars, sideVars>>

\* lines 79-98
ReadHtml ==
    /\ pc = "extracted"
    /\ df' = ReadTable(table)
    /\ original_columns' = Range(ColumnLabels(table.header))
    /\ pc' = "read"
    /\ UNCHANGED <<restVars, table, urls_data, typeVars, sideVars>>

\* line 100
FilterRows ==
    /\ pc = "read"
    /\ df' = FilterNonDataRows(df, original_columns)
    /\ pc' = "filtered"
    /\ UNCHANGED <<restVars, table, urls_data, original_columns, typeVars, sideVars>>

\* line 103
AddUrls ==
    /\ pc = "filtered"
    /\ df' = AddUrlColumns(df, urls_data)
    /\ pc' = "linked"
    /\ UNCHANGED <<restVars, table, urls_data, original_columns, typeVars, sideVars>>

\* lines 106-107
DropTrackingColumn ==
    /\ pc = "linked"
    /\ df' = DropTracking(df)
    /\ pc' = "indexed"
    /\ UNCHANGED <<restVars, table, urls_data, original_columns, typeVars, sideVars>>

\* line 109
SetDtypes ==
    /\ pc = "indexed"
    /\ df' = SetDfDtypes(df)
    /\ pc' = "typed"
    /\ UNCHANGED <<restVars, table, urls_data, original_columns, typeVars, sideVars>>

\* lines 110-112: the fill and the return. Whether df.fillna("") stores the
\* text in a boolean column or raises TypeError depends on the installed
\* pandas: both outcomes are modelled.
FillMissing ==
    /\ pc = "typed"
    /\ \/ pc' = "done" /\ df' = FillDfMissingValues(df)
       \/ /\ \E c \in 1..Len(df) : FillRaises(df[c])
          /\ pc' = "failed"
          /\ df' = df
    /\ UNCHANGED <<restVars, table, urls_data, original_columns, typeVars, sideVars>>

Next ==
    \/ ExtractUrls
    \/ ReadHtml
    \/ FilterRows
    \/ AddUrls
    \/ DropTrackingColumn
    \/ SetDtypes
    \/ FillMissing

Spec == Init /\ [][Next]_vars

(***************************************************************************)
(* Vocabulary of the claims about the table.                               *)
(***************************************************************************)
NRows == Len(table.rows)

Labels == ColumnLabels(table.header)

SnakeNames == [c \in 1..Len(Labels) |-> ToSnakeCase(Labels[c])]

FirstText(r) == table.rows[r][1].text

ContainsTotal(text) == StrContains(StrLower(text), <<"t", "o", "t", "a", "l">>)

IsTotalFirst(r) == ContainsTotal(FirstText(r))

AnyCellTotal(r) == \E k \in 1..Len(table.rows[r]) : ContainsTotal(table.rows[r][k].text)

IsHeaderRepeat(r) == \E c \in 1..Len(Labels) : FirstText(r) = Labels[c]

\* the body rows (from 1) that are neither total rows nor repeated headers
ExpectedRows ==
    SelectIdx(1, NRows, [r \in 1..NRows |-> ~IsTotalFirst(r) /\ ~IsHeaderRepeat(r)])

\* the first hyperlink of physical cell k (from 0) of body row r (from 1)
FirstHref(r, k) ==
    IF k + 1 <= Len(table.rows[r]) /\ table.rows[r][k + 1].hrefs # <<>>
    THEN table.rows[r][k + 1].hrefs[1] ELSE <<>>

\* the physical cell indices (from 0) that hold a link in some body row
LinkedCells == {k \in 0..(Len(Labels) - 1) : \E r \in 1..NRows : FirstHref(r, k) # <<>>}

\* the columns of df that are not original columns
LinkColumns == {i \in 1..Len(df) : df[i].name \notin Range(SnakeNames)}

NoColspan == \A r \in 1..NRows : \A k \in 1..Len(table.rows[r]) : table.rows[r][k].colspan = 1

\* the original indices (from 0) of the rows df holds, read off the tracking
\* column while it exists
RetainedIdx ==
    LET tracking == df[CHOOSE i \in 1..Len(df) : df[i].name = TrackingName]
    IN  [j \in 1..Len(tracking.vals) |-> tracking.vals[j].v \div 100]

Retained(r) == (r - 1) \in Range(RetainedIdx)

\* C1: the returned rows are the retained body rows in their original order,
\* and every link column holds, in each returned row, the link found in the
\* body row at that row's original index, for one and the same cell position.
C1_LinksFollowOriginalRow ==
    pc = "done" =>
        /\ df[1].vals = [j \in 1..Len(ExpectedRows) |-> StrV(FirstText(ExpectedRows[j]))]
        /\ \A i \in LinkColumns :
               \E k \in LinkedCells :
                   df[i].vals = [j \in 1..Len(ExpectedRows) |->
                                    StrV(FirstHref(ExpectedRows[j], k))]

\* C1 witness: body rows [A, TOTAL, C], each with a link in its first cell;
\* the returned rows are [A, C] and C's link is the third row's
C1_Witness ==
    /\ pc = "done"
    /\ NRows = 3
    /\ IsTotalFirst(2)
    /\ FirstHref(2, 0) # <<>>
    /\ FirstHref(3, 0) # <<>>
    /\ df[1].vals = <<StrV(TeamName(0)), StrV(TeamName(2))>>
    /\ \E i \in LinkColumns :
           df[i].vals = <<StrV(FirstHref(1, 0)), StrV(FirstHref(3, 0))>>

\* the link column the claims expect for original column c (from 1): named
\* after c, holding the first link of c's own cell in each returned row
OwnLinkColumn(i, c) ==
    /\ df[i].name = SnakeNames[c] \o UrlSuffix
    /\ df[i].vals = [j \in 1..Len(ExpectedRows) |->
                        StrV(FirstHref(ExpectedRows[j], c - 1))]

\* C2 (as claimed): every original column that carries a link has a link
\* column named after itself and filled from its own cells, however many
\* columns carry links. Stated for the tables without colspan, with the
\* suffix the code appends.
C2_LinkColumnIsItsOwn ==
    (pc = "done" /\ NoColspan) =>
        \A k \in LinkedCells : \E i \in 1..Len(df) : OwnLinkColumn(i, k + 1)

\* the link the cell covering logical column c (from 0) of body row r holds
CoveringHref(r, c) ==
    LET cells    == table.rows[r]
        start(k) == Len(ExpandColspan(SubSeq(cells, 1, k - 1)))
        k        == CHOOSE q \in 1..Len(cells) :
                        start(q) <= c /\ c < start(q) + cells[q].colspan
    IN  IF cells[k].hrefs # <<>> THEN cells[k].hrefs[1] ELSE <<>>

\* the link the extracted grid holds for body row r (from 1), column c (from 0)
GridHref(r, c) ==
    IF (r - 1) \in DOMAIN urls_data /\ c \in DOMAIN urls_data[r - 1]
    THEN urls_data[r - 1][c] ELSE <<>>

\* C3 (as claimed): the extracted link grid is colspan-aware: each logical
\* column holds the link of the cell that covers it.
C3_LinksFollowColspan ==
    pc = "extracted" =>
        \A r \in 1..NRows : \A c \in 0..(Len(Labels) - 1) :
            GridHref(r, c) = CoveringHref(r, c)

\* the names the claims expect: the original columns in order, each linked
\* one followed by its link column
RECURSIVE ExpectedNames(_)
ExpectedNames(c) ==
    IF c > Len(Labels) THEN <<>>
    ELSE <<SnakeNames[c]>>
         \o (IF (c - 1) \in LinkedCells THEN <<SnakeNames[c] \o UrlSuffix>> ELSE <<>>)
         \o ExpectedNames(c + 1)

\* C4 (as claimed): the returned columns are the original columns in their
\* order, and each link column sits immediately after its own value column:
\* the column right after a linked column c holds c's links. Stated for the
\* tables without colspan.
C4_LinkColumnFollowsItsOwn ==
    (pc = "done" /\ NoColspan) =>
        /\ [i \in 1..Len(df) |-> df[i].name] = ExpectedNames(1)
        /\ \A k \in LinkedCells :
               \E i \in 1..(Len(df) - 1) :
                   df[i].name = SnakeNames[k + 1] /\ OwnLinkColumn(i + 1, k + 1)

\* C5 (as claimed): a body row is dropped whenever any of its cells contains
\* "total", whatever the case, not only when its first cell does.
C5_AnyTotalCellDrops ==
    pc = "filtered" => \A r \in 1..NRows : AnyCellTotal(r) => ~Retained(r)

\* C5 (amended): a body row is dropped by the total rule exactly when its
\* FIRST cell contains "total", whatever the case; "total" in another cell
\* does not drop the row.
C5_FirstCellTotalDrops ==
    pc = "filtered" =>
        \A r \in 1..NRows :
            ~IsHeaderRepeat(r) => (~Retained(r) <=> IsTotalFirst(r))

\* C5 witness: a row with "Squad Total" in its first cell is dropped and a
\* row with "Total" in its third cell only is retained
C5_Witness ==
    /\ pc = "filtered"
    /\ \E r \in 1..NRows : FirstText(r) = X_SquadTotal /\ ~Retained(r)
    /\ \E r \in 1..NRows : AnyCellTotal(r) /\ ~IsTotalFirst(r) /\ Retained(r)

\* C6: a body row without "total" in its first cell is dropped exactly when
\* its first cell equals a header label as it was before snake_case; every
\* other such row is retained, and the retained rows keep their order.
C6_HeaderRepeatDrops ==
    pc = "filtered" =>
        /\ \A r \in 1..NRows :
               ~IsTotalFirst(r) => (~Retained(r) <=> IsHeaderRepeat(r))
        /\ \A i, j \in 1..Len(RetainedIdx) : i < j => RetainedIdx[i] < RetainedIdx[j]
        /\ Len(RetainedIdx) = Len(ExpectedRows)

\* C6 witness: under a two-level header, a row repeating the label "Squad"
\* is dropped and a row reading "squad" is retained
C6_Witness ==
    /\ pc = "filtered"
    /\ Len(table.header[1]) = 2
    /\ \E r \in 1..NRows : FirstText(r) = L_Squad /\ ~Retained(r)
    /\ \E r \in 1..NRows : FirstText(r) = X_LowerSquad /\ Retained(r)

(***************************************************************************)
(* Vocabulary of the claims about one column.                              *)
(***************************************************************************)
\* the texts of the cells in the retained rows, in order
KeptTexts ==
    LET kept == SelectIdx(1, Len(tcells), tkeep)
    IN  [j \in 1..Len(kept) |-> tcells[kept[j]]]

NonEmptyKept == {j \in 1..Len(KeptTexts) : KeptTexts[j] # <<>>}

ParsedKept == {j \in 1..Len(KeptTexts) : ParsesAsNumber(KeptTexts[j])}

BooleanKept == {j \in 1..Len(KeptTexts) : KeptTexts[j] \in TrueTexts \cup FalseTexts}

FinalNumeric == tcol.dtype \in {"Int64", "Float64"}

FinalText == tcol.dtype \in {"string", "object"}

FinalBoolean == tcol.dtype = "boolean"

ScraperDone == tpc = "done" /\ tmode = "scraper"

\* C7 (as claimed): a column the scraper returns is numeric exactly when at
\* least half of its non-empty cells parse as a number; empty cells do not
\* count in the denominator. Stated for the columns without boolean literals.
C7_NumericIffHalfOfNonEmpty ==
    (ScraperDone /\ NonEmptyKept # {} /\ BooleanKept = {}) =>
        (FinalNumeric <=> Cardinality(ParsedKept) * 2 >= Cardinality(NonEmptyKept))

\* C8 (as claimed): a column all of whose retained cells are empty comes out
\* of the scraper as text, filled with empty strings. Stated for the tables
\* with at least one retained row.
C8_EmptyColumnIsText ==
    (ScraperDone /\ NonEmptyKept = {} /\ Len(KeptTexts) > 0) =>
        /\ FinalText
        /\ \A j \in 1..Len(tcol.vals) : tcol.vals[j] = StrV(<<>>)

\* C9 (as claimed): a numeric column the scraper returns is integer only if
\* every parsed value is whole and no cell text holds a decimal point, and is
\* float otherwise.
C9_DecimalTextIsFloat ==
    (ScraperDone /\ FinalNumeric) =>
        (tcol.dtype = "Int64" <=>
            /\ \A j \in ParsedKept : IsWhole(NumberOf(KeptTexts[j]))
            /\ \A j \in 1..Len(KeptTexts) : ~HasDot(KeptTexts[j]))

\* the cells a fill has to fill in a numeric column: empty, or a text that
\* is neither a number nor a boolean literal
NotConvertible(text) ==
    ~ParsesAsNumber(text) /\ text \notin TrueTexts \cup FalseTexts

FilledNumeric ==
    FinalNumeric =>
        \A j \in 1..Len(KeptTexts) :
            NotConvertible(KeptTexts[j]) => tcol.vals[j] = NumV(0)

FilledText ==
    FinalText =>
        \A j \in 1..Len(KeptTexts) :
            KeptTexts[j] = <<>> => tcol.vals[j] = StrV(<<>>)

NoneMissing == \A j \in 1..Len(tcol.vals) : tcol.vals[j].t # "na"

InferredType(texts) == SetColumnDtype(ParserColumn(<<>>, texts)).dtype

\* C25: the rows are filtered before the types are inferred, and the types
\* before the missing values are filled, so that a dropped total or
\* repeated-header row never contributes to the type of a column: the type
\* inferred for each column is the one inferred had the dropped rows never
\* been in the table.
C25_DroppedRowsDoNotBiasTypes ==
    (tmode = "scraper" /\ tpc \in {"typed", "done", "failed"}) =>
        tcol.dtype = InferredType(KeptTexts)

(***************************************************************************)
(* SpecHeader: the naming of the columns of a table with a two-level       *)
(* header (_parse_table lines 79-95).                                      *)
(***************************************************************************)
MaxCols == 3

H_AB == <<"A", " ", "B">>

H_A == <<"A">>

H_C == <<"C">>

H_BC == <<"B", " ", "C">>

H_G9 == <<"G", " ", "/", " ", "9">>

\* the texts of the top header cells (empty: no group over the column; equal
\* to the text below it: a header cell spanning both rows)
TopTexts == {<<>>, H_AB, H_A, H_C}

\* the texts of the second header row
SubTexts == {H_C, H_BC, H_G9}

\* pd.read_html: the label of an empty header cell of column i at a level
UnnamedLabel(i, level) ==
    <<"U", "n", "n", "a", "m", "e", "d", ":", " ">> \o NatStr(i)
    \o <<"_", "l", "e", "v", "e", "l", "_">> \o NatStr(level)

\* pd.read_html: empty header cells get their placeholder label
NameHeaderCells(cells) ==
    [c \in 1..Len(cells) |->
        [l \in 1..Len(cells[c]) |->
            IF cells[c][l] = <<>> THEN UnnamedLabel(c - 1, l - 1) ELSE cells[c][l]]]

\* pd.read_html: a column tuple equal to an earlier one gets ".k" appended to
\* its last level, k the number of earlier occurrences
DedupNames(cols) ==
    [c \in 1..Len(cols) |->
        LET k == Cardinality({b \in 1..(c - 1) : cols[b] = cols[c]})
            n == Len(cols[c])
        IN  IF k = 0 THEN cols[c]
            ELSE [cols[c] EXCEPT ![n] = @ \o <<".">> \o NatStr(k)]]

HeaderInit ==
    /\ RestIdle
    /\ pc = "idle"
    /\ table = IdleTable
    /\ urls_data = <<>>
    /\ df = <<>>
    /\ original_columns = {}
    /\ tpc = "idle"
    /\ tmode = "scraper"
    /\ tcells = <<>>
    /\ tkeep = <<>>
    /\ tcol = IdleColumn
    /\ ScrapeIdle
    /\ CrosswalkIdle
    /\ hpc = "html"
    /\ hheader \in UNION {[1..n -> {<<t, u>> : t \in TopTexts, u \in SubTexts}] :
                            n \in 2..MaxCols}
    /\ hlabels = <<>>
    /\ hnames = <<>>

\* line 79: the MultiIndex of the parsed table
HReadHtml ==
    /\ hpc = "html"
    /\ hheader' = DedupNames(NameHeaderCells(hheader))
    /\ hpc' = "read"
    /\ UNCHANGED <<restVars, tableVars, typeVars, scrapeVars, crosswalkVars, hlabels, hnames>>

\* lines 82-90
HFlatten ==
    /\ hpc = "read"
    /\ hlabels' = ColumnLabels(hheader)
    /\ hpc' = "flattened"
    /\ UNCHANGED <<restVars, tableVars, typeVars, scrapeVars, crosswalkVars, hheader, hnames>>

\* line 95
HSnakeCase ==
    /\ hpc = "flattened"
    /\ hnames' = [c \in 1..Len(hlabels) |-> ToSnakeCase(hlabels[c])]
    /\ hpc' = "named"
    /\ UNCHANGED <<restVars, tableVars, typeVars, scrapeVars, crosswalkVars, hheader, hlabels>>

HeaderNext ==
    \/ HReadHtml
    \/ HFlatten
    \/ HSnakeCase

SpecHeader == HeaderInit /\ [][HeaderNext]_vars

\* C11: for every well-formed two-level header, after flattening and
\* snake_case no two output columns have the same name, also when two columns
\* have a placeholder top level and the same sub-label, and when different
\* (group, sub-label) pairs join to the same string.
C11_ColumnNamesUnique ==
    hpc = "named" =>
        \A a, b \in 1..Len(hnames) : a # b => hnames[a] # hnames[b]

IsPlaceholder(label) == StartsWith(label, <<"U", "n", "n", "a", "m", "e", "d">>)

\* the levels of a column without the blank ones, the placeholders and those
\* equal to the level directly above
DistinctLevels(levels) ==
    SelectSeq([l \in 1..Len(levels) |->
                  IF \/ StrStrip(levels[l]) = <<>>
                     \/ IsPlaceholder(levels[l])
                     \/ l > 1 /\ levels[l] = levels[l - 1]
                  THEN <<>> ELSE levels[l]],
              LAMBDA level : level # <<>>)

\* C26: for a multi-level header each column's name is the underscore-join,
\* top to bottom, of its level labels without the blank labels, the
\* auto-generated placeholder labels and every level whose label equals the
\* label of the level directly above it; ('C', 'C') flattens to 'C' and not
\* to 'C_C', and ('<placeholder>', 'C') flattens to 'C'.
C26_FlattenSkipsRepeatedLevel ==
    hpc \in {"flattened", "named"} =>
        \A c \in 1..Len(hheader) :
            hlabels[c] = StrJoin(DistinctLevels(hheader[c]), <<"_">>)

HasUpper(s) == \E i \in 1..Len(s) : s[i] \in Range(UpperCase)

\* C27: the snake_case of every header label has no leading or trailing
\* whitespace, no uppercase letter, no space, no slash and no two consecutive
\* underscores ('G / 9' becomes 'g_9'), and converting it again returns it
\* unchanged.
C27_SnakeCaseIsClean ==
    hpc = "named" =>
        \A c \in 1..Len(hnames) :
            /\ StrStrip(hnames[c]) = hnames[c]
            /\ ~HasUpper(hnames[c])
            /\ ~StrContains(hnames[c], <<" ">>)
            /\ ~StrContains(hnames[c], <<"/">>)
            /\ ~StrContains(hnames[c], <<"_", "_">>)
            /\ ToSnakeCase(hnames[c]) = hnames[c]

(***************************************************************************)
(* SpecScrape: scrape_table. _fetch_html asks for the page up to Retries   *)
(* times; _parse_table selects the table at table_index among the          *)
(* table.stats_table elements and then runs the steps of Spec on it.       *)
(***************************************************************************)
MaxTables == 2

\* _fetch_html: retries: int = 3
Retries == 3

PageTableA ==
    [header |-> OneLevelHeader,
     rows   |-> <<MakeRow("data", 0, OneLevelHeader, {1})>>]

PageTableB ==
    [header |-> TwoLevelHeader,
     rows   |-> <<MakeRow("plain", 0, TwoLevelHeader, {}),
                  MakeRow("total", 1, TwoLevelHeader, {})>>]

PageTables == {PageTableA, PageTableB}

TableIndexes == (0 - MaxTables)..MaxTables

ErrFetch == [kind |-> "ValueError", msg |-> "Failed to fetch HTML after all retries"]

ErrNoTables == [kind |-> "ValueError", msg |-> "No stats tables found on page"]

ErrTableIndex == [kind |-> "IndexError", msg |-> "Table index out of range"]

ErrListIndex == [kind |-> "IndexError", msg |-> "list index out of range"]

\* a mutant of PyIndex: the first table whatever the index
PyIndexFirst(seq, i) == seq[1]

\* Python seq[i] for an index the list accepts: from the end when negative
PyIndex(seq, i) == IF i >= 0 THEN seq[i + 1] ELSE seq[Len(seq) + i + 1]

\* line 70: if not tables
NoTables(tables) == tables = <<>>

\* line 72: if table_index >= len(tables)
IndexTooLarge(tables, i) == i >= Len(tables)

\* line 75: tables[table_index] raises for an index below -len(tables)
IndexTooSmall(tables, i) == i < 0 - Len(tables)

ScrapeInit ==
    /\ RestIdle
    /\ pc = "idle"
    /\ table = IdleTable
    /\ urls_data = <<>>
    /\ df = <<>>
    /\ original_columns = {}
    /\ tpc = "idle"
    /\ tmode = "scraper"
    /\ tcells = <<>>
    /\ tkeep = <<>>
    /\ tcol = IdleColumn
    /\ HeadIdle
    /\ CrosswalkIdle
    /\ spc = "fetching"
    /\ page \in UNION {[1..n -> PageTables] : n \in 0..MaxTables}
    /\ has_table_text \in {b \in BOOLEAN : page # <<>> => b}
    /\ table_index \in TableIndexes
    /\ attempt = 0
    /\ err = NoError
    /\ parses = 0

\* _fetch_html lines 34-52, one pass of the loop: the request raises, or
\* answers with a status other than 200, or with the page; a page without
\* the text "table" is asked for again
FetchAttempt ==
    /\ spc = "fetching"
    /\ attempt < Retries
    /\ \E outcome \in {"exception", "status", "page"} :
          IF outcome = "page" /\ has_table_text
          THEN spc' = "fetched" /\ attempt' = attempt
          ELSE spc' = "fetching" /\ attempt' = attempt + 1
    /\ UNCHANGED <<restVars, tableVars, typeVars, headVars, crosswalkVars,
                   page, has_table_text, table_index, err, parses>>

\* _fetch_html line 54
FetchGiveUp ==
    /\ spc = "fetching"
    /\ attempt = Retries
    /\ spc' = "raised"
    /\ err' = ErrFetch
    /\ UNCHANGED <<restVars, tableVars, typeVars, headVars, crosswalkVars,
                   page, has_table_text, table_index, attempt, parses>>

\* scrape_table line 31 and _parse_table lines 67-75
SelectTable ==
    /\ spc = "fetched"
    /\ parses' = parses + 1
    /\ IF NoTables(page)
       THEN spc' = "raised" /\ err' = ErrNoTables /\ UNCHANGED <<pc, table>>
       ELSE IF IndexTooLarge(page, table_index)
       THEN spc' = "raised" /\ err' = ErrTableIndex /\ UNCHANGED <<pc, table>>
       ELSE IF IndexTooSmall(page, table_index)
       THEN spc' = "raised" /\ err' = ErrListIndex /\ UNCHANGED <<pc, table>>
       ELSE /\ spc' = "parsing"
            /\ table' = PyIndex(page, table_index)
            /\ pc' = "start"
            /\ err' = err
    /\ UNCHANGED <<restVars, urls_data, df, original_columns, typeVars, headVars,
                   crosswalkVars, page, has_table_text, table_index, attempt>>

ScrapeNext ==
    \/ FetchAttempt
    \/ FetchGiveUp
    \/ SelectTable
    \/ ExtractUrls
    \/ ReadHtml
    \/ FilterRows
    \/ AddUrls
    \/ DropTrackingColumn
    \/ SetDtypes
    \/ FillMissing

SpecScrape == ScrapeInit /\ [][ScrapeNext]_vars

NCandidates == Len(page)

TableSelected == parses > 0

\* C12: with n candidate tables, n = 0 fails with the no-table error;
\* n > 0 and table_index >= n fails with the index error; 0 <= table_index < n
\* raises neither and the table at position table_index is the one parsed.
\* The two errors are of distinct kinds, are raised before any row of the
\* table is processed, and _parse_table is entered at most once.
C12_TableSelection ==
    /\ ErrNoTables.kind # ErrTableIndex.kind
    /\ parses <= 1
    /\ TableSelected /\ NCandidates = 0 =>
          spc = "raised" /\ err = ErrNoTables
    /\ TableSelected /\ NCandidates > 0 /\ table_index >= NCandidates =>
          spc = "raised" /\ err = ErrTableIndex
    /\ TableSelected /\ 0 <= table_index /\ table_index < NCandidates =>
          /\ spc = "parsing"
          /\ err \notin {ErrNoTables, ErrTableIndex}
          /\ table = page[table_index + 1]
    /\ err \in {ErrNoTables, ErrTableIndex} =>
          /\ pc = "idle"
          /\ urls_data = <<>>
          /\ df = <<>>
          /\ ~ENABLED ScrapeNext

\* the second of two different tables was asked for, after one failed
\* request, and has been parsed to the end
C12_Witness ==
    /\ NCandidates = 2
    /\ page[1] # page[2]
    /\ table_index = 1
    /\ attempt = 1
    /\ pc = "done"
    /\ table = page[2]

(***************************************************************************)
(* crosswalk_player_id: fuzzy scores.                                      *)
(*                                                                         *)
(* fuzz.WRatio is a function of the two strings; the model draws its       *)
(* values on the names at hand from Scores. WRatio is the largest of the   *)
(* plain ratio and of token and partial ratios scaled by at most 0.95, so  *)
(* it is 100 exactly when the two strings are equal.                       *)
(***************************************************************************)
MaxTeams == 2

\* values of fuzz.WRatio on different strings: below, at and above threshold
Scores == {79, 80, 95}

TEAM_MATCH_THRESHOLD == 80

PLAYER_MATCH_THRESHOLD == 80

MANUAL_TEAM_MAPPINGS ==
    [a \in {"Man Utd", "Man United", "Spurs", "Tottenham"} |->
        IF a \in {"Man Utd", "Man United"} THEN "Manchester United"
        ELSE "Tottenham Hotspur"]

FplTeamNames == {"Man Utd", "Spurs", "Chelsea"}

SmTeamNames == {"Manchester United", "Tottenham Hotspur", "Chelsea"}

\* the sequences of distinct elements of S of length at most n
DistinctSeqs(S, n) ==
    {q \in UNION {[1..k -> S] : k \in 0..n} :
        \A i, j \in 1..Len(q) : i # j => q[i] # q[j]}

\* the WRatio tables on queries A and choices B
ScoreTables(A, B) ==
    {[x \in A \X B |-> IF x[1] = x[2] THEN 100 ELSE w[x]] : w \in [A \X B -> Scores]}

None == [found |-> FALSE, match |-> "", score |-> 0, index |-> 0]

\* process.extractOne(query, choices, scorer=fuzz.WRatio): the choice with
\* the highest score, the first of them when several have it; None when
\* there is no choice
fuzzy_extract_one(query, choices, scorer) ==
    IF choices = <<>> THEN None
    ELSE LET best == CHOOSE i \in 1..Len(choices) :
                        /\ \A j \in 1..Len(choices) :
                              scorer[<<query, choices[j]>>] <= scorer[<<query, choices[i]>>]
                        /\ \A j \in 1..(i - 1) :
                              scorer[<<query, choices[j]>>] < scorer[<<query, choices[i]>>]
         IN  [found |-> TRUE, match |-> choices[best],
              score |-> scorer[<<query, choices[best]>>], index |-> best - 1]

(***************************************************************************)
(* SpecTeams: match_team_names(fpl_teams, sm_teams).                       *)
(***************************************************************************)
ParseIdle ==
    /\ pc = "idle"
    /\ table = IdleTable
    /\ urls_data = <<>>
    /\ df = <<>>
    /\ original_columns = {}
    /\ tpc = "idle"
    /\ tmode = "scraper"
    /\ tcells = <<>>
    /\ tkeep = <<>>
    /\ tcol = IdleColumn
    /\ HeadIdle
    /\ ScrapeIdle

\* a mutant of ManualApplies: the manual mappings are never consulted
ManualNever(fpl_team, sm_teams_set) == FALSE

\* lines 101-103
ManualApplies(fpl_team, sm_teams_set) ==
    /\ fpl_team \in DOMAIN MANUAL_TEAM_MAPPINGS
    /\ MANUAL_TEAM_MAPPINGS[fpl_team] \in sm_teams_set

\* a mutant of FuzzyAccepts: a score equal to the threshold is rejected
FuzzyAcceptsAbove(result) == result.found /\ result.score > TEAM_MATCH_THRESHOLD

\* line 110
FuzzyAccepts(result) == result.found /\ result.score >= TEAM_MATCH_THRESHOLD

\* a mutant of RaisesUnmatched: the mapping is returned as it is
RaisesNever(unmatched_list) == FALSE

\* line 118
RaisesUnmatched(unmatched_list) == unmatched_list # <<>>

TeamsInit ==
    /\ RestIdle
    /\ ParseIdle
    /\ kpc = "teams"
    /\ fpl_teams \in DistinctSeqs(FplTeamNames, MaxTeams)
    /\ sm_teams \in DistinctSeqs(SmTeamNames, MaxTeams)
    /\ wratio \in ScoreTables(Range(fpl_teams), Range(sm_teams))
    /\ team_mapping = <<>>
    /\ unmatched = <<>>
    /\ fpl_players = <<>>
    /\ sm_players = <<>>
    /\ sm_team_index = <<>>
    /\ loop = LoopIdle

\* lines 99-116, one pass of the loop
MatchTeam ==
    /\ kpc = "teams"
    /\ loop.i < Len(fpl_teams)
    /\ LET fpl_team == fpl_teams[loop.i + 1]
           result   == fuzzy_extract_one(fpl_team, sm_teams, wratio)
       IN  IF ManualApplies(fpl_team, Range(sm_teams))
           THEN /\ team_mapping' =
                      (fpl_team :> MANUAL_TEAM_MAPPINGS[fpl_team]) @@ team_mapping
                /\ unmatched' = unmatched
           ELSE IF FuzzyAccepts(result)
           THEN /\ team_mapping' = (fpl_team :> result.match) @@ team_mapping
                /\ unmatched' = unmatched
           ELSE /\ team_mapping' = team_mapping
                /\ unmatched' = Append(unmatched, fpl_team)
    /\ loop' = [loop EXCEPT !.i = @ + 1]
    /\ UNCHANGED <<restVars, tableVars, typeVars, headVars, scrapeVars, kpc, fpl_teams,
                   sm_teams, wratio, fpl_players, sm_players, sm_team_index>>

\* lines 118-121
TeamsFinish ==
    /\ kpc = "teams"
    /\ loop.i = Len(fpl_teams)
    /\ kpc' = IF RaisesUnmatched(unmatched) THEN "raised" ELSE "returned"
    /\ UNCHANGED <<restVars, tableVars, typeVars, headVars, scrapeVars, fpl_teams,
                   sm_teams, wratio, team_mapping, unmatched, fpl_players,
                   sm_players, sm_team_index, loop>>

TeamsNext ==
    \/ MatchTeam
    \/ TeamsFinish

SpecTeams == TeamsInit /\ [][TeamsNext]_vars

(***************************************************************************)
(* Claims on match_team_names.                                             *)
(***************************************************************************)
NamesA == Range(fpl_teams)

NamesB == Range(sm_teams)

TeamsFinished == kpc \in {"returned", "raised"}

\* the entry has a manual alias whose target is a member of namesB
HasAlias(a) ==
    a \in DOMAIN MANUAL_TEAM_MAPPINGS /\ MANUAL_TEAM_MAPPINGS[a] \in NamesB

\* the entry has a candidate in namesB scoring at least the threshold
HasFuzzy(a) == \E b \in NamesB : wratio[<<a, b>>] >= TEAM_MATCH_THRESHOLD

\* the highest score of the entry over namesB
TopScore(a) ==
    CHOOSE v \in {wratio[<<a, b>>] : b \in NamesB} :
        \A b \in NamesB : wratio[<<a, b>>] <= v

Unmatchable == {a \in NamesA : ~HasAlias(a) /\ ~HasFuzzy(a)}

\* C13: team matching is all-or-nothing: either a mapping is returned whose
\* key set is exactly the set of namesA, or it fails with the list of exactly
\* those namesA entries that had neither an applicable manual alias nor a
\* fuzzy candidate scoring >= threshold; a mapping lacking an entry is never
\* returned.
C13_AllOrNothing ==
    /\ kpc = "returned" => DOMAIN team_mapping = NamesA /\ Unmatchable = {}
    /\ kpc = "raised" =>
          /\ Unmatchable # {}
          /\ Range(unmatched) = Unmatchable
          /\ Len(unmatched) = Cardinality(Unmatchable)

\* one of two teams was matched, the other was not, and the call failed
C13_Witness ==
    /\ kpc = "raised"
    /\ Len(fpl_teams) = 2
    /\ Len(unmatched) = 1
    /\ DOMAIN team_mapping # {}

\* C14: a namesA entry with a manual alias whose target is in namesB is
\* mapped to that target whatever the scores; if the target is not in namesB
\* the entry is handled by fuzzy matching as if it had no alias; and
\* ['Man Utd','Chelsea'] against ['Manchester United','Chelsea'] gives
\* {'Man Utd': 'Manchester United', 'Chelsea': 'Chelsea'}.
C14_ManualAliasFirst ==
    TeamsFinished =>
        /\ \A a \in NamesA :
              IF HasAlias(a)
              THEN /\ a \in DOMAIN team_mapping
                   /\ team_mapping[a] = MANUAL_TEAM_MAPPINGS[a]
              ELSE IF HasFuzzy(a)
              THEN /\ a \in DOMAIN team_mapping
                   /\ wratio[<<a, team_mapping[a]>>] = TopScore(a)
              ELSE a \in Range(unmatched)
        /\ fpl_teams = <<"Man Utd", "Chelsea">>
           /\ sm_teams = <<"Manchester United", "Chelsea">> =>
              /\ kpc = "returned"
              /\ team_mapping = ("Man Utd" :> "Manchester United")
                                @@ ("Chelsea" :> "Chelsea")

\* the alias of 'Man Utd' won although its target scores below the threshold
\* and another namesB entry scores above it
C14_Witness ==
    /\ kpc = "returned"
    /\ "Man Utd" \in NamesA
    /\ sm_teams = <<"Chelsea", "Manchester United">>
    /\ wratio[<<"Man Utd", "Manchester United">>] < TEAM_MATCH_THRESHOLD
    /\ wratio[<<"Man Utd", "Chelsea">>] > TEAM_MATCH_THRESHOLD
    /\ team_mapping["Man Utd"] = "Manchester United"

\* C15: an entry without an applicable manual alias is mapped to the namesB
\* entry with the highest score, accepted only if that score >= threshold
\* (equal is accepted, just below is rejected and the entry is unmatched);
\* every value of the mapping is a member of namesB, and with an empty
\* namesB every namesA entry is unmatched.
C15_BestScoreAtThreshold ==
    TeamsFinished =>
        /\ \A a \in NamesA : ~HasAlias(a) /\ NamesB # {} =>
              IF TopScore(a) >= TEAM_MATCH_THRESHOLD
              THEN /\ a \in DOMAIN team_mapping
                   /\ a \notin Range(unmatched)
                   /\ wratio[<<a, team_mapping[a]>>] = TopScore(a)
              ELSE a \notin DOMAIN team_mapping /\ a \in Range(unmatched)
        /\ \A a \in DOMAIN team_mapping : team_mapping[a] \in NamesB
        /\ NamesB = {} => unmatched = fpl_teams /\ DOMAIN team_mapping = {}

\* one entry was accepted at a score equal to the threshold, another was
\* rejected at the score just below it
C15_Witness ==
    /\ kpc = "raised"
    /\ NamesB # {}
    /\ \E a \in NamesA :
          /\ ~HasAlias(a)
          /\ TopScore(a) = TEAM_MATCH_THRESHOLD
          /\ a \in DOMAIN team_mapping
    /\ \E a \in NamesA :
          /\ ~HasAlias(a)
          /\ TopScore(a) = TEAM_MATCH_THRESHOLD - 1
          /\ a \in Range(unmatched)

(***************************************************************************)
(* SpecPlayers: the player matching of crosswalk_player_id.main (lines     *)
(* 201-254) on the rows of the two source tables and a team mapping.       *)
(***************************************************************************)
MaxPlayers == 2

N_A == <<"A">>

N_B == <<"B">>

N_C == <<"C">>

N_D == <<"D">>

N_Unknown == <<"u", "n", "k", "n", "o", "w", "n">>

FplRow(team, first, second, web) ==
    [id |-> 0, team_name |-> team, first_name |-> first, second_name |-> second,
     web_name |-> web]

SmRow(team, player, first, last, common) ==
    [player_id |-> 0, team_name |-> team, player_name |-> player,
     first_name |-> first, last_name |-> last, common_name |-> common]

\* rows of fpl_player: without any name, and with a full name and a web name
FplRows ==
    {FplRow(t, <<>>, <<>>, <<" ">>) : t \in {"", "T1", "T2"}}
    \cup {FplRow(t, N_A, <<>>, N_B) : t \in {"T1", "T2"}}

\* rows of sm_player_overall: named by player_name, by first name, not at all
SmRows ==
    {SmRow("U1", N_C, <<>>, <<>>, N_C),
     SmRow("U1", <<>>, N_D, <<>>, <<>>),
     SmRow("U1", <<>>, <<>>, <<>>, <<>>)}

\* the rows as the query returns them, each with its own identifier
NumberedRows(rows, key) == [i \in 1..Len(rows) |-> [rows[i] EXCEPT ![key] = i]]

TeamMappings == {("T1" :> "U1"), ("T1" :> "U1") @@ ("T2" :> "U2")}

StripSpaces(s) == StrStrip(s)

\* f"{a} {b}".strip()
FullName(a, b) == StripSpaces(a \o <<" ">> \o b)

\* lines 52-66
get_fpl_name_variants(row) ==
    LET first_name  == StripSpaces(row.first_name)
        second_name == StripSpaces(row.second_name)
        full_name   == FullName(first_name, second_name)
        web_name    == StripSpaces(row.web_name)
    IN  (IF full_name # <<>> THEN <<full_name>> ELSE <<>>)
        \o (IF web_name # <<>> /\ web_name # full_name THEN <<web_name>> ELSE <<>>)

\* lines 69-87
get_sm_name_variants(row) ==
    LET player_name == StripSpaces(row.player_name)
        full_name   == FullName(StripSpaces(row.first_name), StripSpaces(row.last_name))
        common_name == StripSpaces(row.common_name)
    IN  (IF player_name # <<>> THEN <<player_name>> ELSE <<>>)
        \o (IF full_name # <<>> /\ full_name # player_name THEN <<full_name>> ELSE <<>>)
        \o (IF common_name # <<>> /\ common_name # player_name
            THEN <<common_name>> ELSE <<>>)

\* lines 124-136
build_sm_team_index(players) ==
    [t \in {players[i].team_name : i \in 1..Len(players)} |->
        SelectSeq(players, LAMBDA q : q.team_name = t)]

\* sm_team_index.get(sm_team, [])
IndexGet(index, sm_team) == IF sm_team \in DOMAIN index THEN index[sm_team] ELSE <<>>

NoMatch == [found |-> FALSE, player |-> SmRow("", <<>>, <<>>, <<>>, <<>>),
            score |-> 0, calls |-> 0]

\* a mutant of Improves: a later candidate with the same score replaces the
\* earlier one
ImprovesOrTies(match_score, best_match) ==
    ~best_match.found \/ match_score >= best_match.score

\* line 164
Improves(match_score, best_match) ==
    ~best_match.found \/ match_score > best_match.score

RECURSIVE BestOverVariants(_, _, _, _)
\* lines 160-165 for one candidate
BestOverVariants(fpl_variants, sm_player, threshold, best_match) ==
    IF fpl_variants = <<>> THEN best_match
    ELSE LET result == fuzzy_extract_one(Head(fpl_variants),
                                         get_sm_name_variants(sm_player), wratio)
             counted == [best_match EXCEPT !.calls = @ + 1]
             next == IF result.found /\ result.score >= threshold
                        /\ Improves(result.score, best_match)
                     THEN [counted EXCEPT !.found = TRUE, !.player = sm_player,
                                          !.score = result.score]
                     ELSE counted
         IN  BestOverVariants(Tail(fpl_variants), sm_player, threshold, next)

RECURSIVE BestOverCandidates(_, _, _, _)
\* lines 154-165
BestOverCandidates(fpl_variants, sm_candidates, threshold, best_match) ==
    IF sm_candidates = <<>> THEN best_match
    ELSE LET sm_player == Head(sm_candidates)
             next == IF get_sm_name_variants(sm_player) = <<>> THEN best_match
                     ELSE BestOverVariants(fpl_variants, sm_player, threshold,
                                           best_match)
         IN  BestOverCandidates(fpl_variants, Tail(sm_candidates), threshold, next)

\* a mutant of find_best_match: the first candidate of the pool is the match
first_candidate(fpl_player, sm_candidates, threshold) ==
    [NoMatch EXCEPT !.found = TRUE, !.player = Head(sm_candidates), !.score = 100]

\* lines 139-167
find_best_match(fpl_player, sm_candidates, threshold) ==
    LET fpl_variants == get_fpl_name_variants(fpl_player)
    IN  IF fpl_variants = <<>> THEN NoMatch
        ELSE BestOverCandidates(fpl_variants, sm_candidates, threshold, NoMatch)

NoTeamReason == "no team"

NoPlayerMatchReason == "no player match"

\* a mutant of NoCandidatesReason: an empty pool reported as a failed scoring
NoCandidatesAsNoMatch == "no player match"

\* line 229
NoCandidatesReason == "no SM candidates"

\* a mutant of Unmatched: the report is appended but not counted
UnmatchedUncounted(st, name, team, reason) ==
    [st EXCEPT !.unmatched_players =
                   Append(@, [name |-> name, team |-> team, reason |-> reason])]

\* stats.unmatched += 1; stats.unmatched_players.append(...)
Unmatched(st, name, team, reason) ==
    [st EXCEPT !.unmatched = @ + 1,
               !.unmatched_players =
                   Append(@, [name |-> name, team |-> team, reason |-> reason])]

\* lines 237-244
Matched(st, fpl_player_id, sm_player) ==
    [st EXCEPT !.crosswalk_rows =
                   Append(@, [fpl_player_id |-> fpl_player_id,
                              sm_player_id |-> sm_player.player_id]),
               !.matched = @ + 1]

\* line 213
TeamMissing(fpl_team, mapping) == fpl_team = "" \/ fpl_team \notin DOMAIN mapping

\* lines 209-254, one pass of the loop on the team index given
MatchPlayerOn(st, fpl_player, index) ==
    LET fpl_team  == fpl_player.team_name
        fpl_names == get_fpl_name_variants(fpl_player)
        sm_candidates == IndexGet(index, team_mapping[fpl_team])
        match_result == find_best_match(fpl_player, sm_candidates,
                                        PLAYER_MATCH_THRESHOLD)
        out == IF TeamMissing(fpl_team, team_mapping)
               THEN Unmatched(st, fpl_names, fpl_team, NoTeamReason)
               ELSE IF sm_candidates = <<>>
               THEN Unmatched(st, fpl_names, fpl_team, NoCandidatesReason)
               ELSE IF match_result.found
               THEN Matched(st, fpl_player.id, match_result.player)
               ELSE Unmatched(st, IF fpl_names # <<>> THEN fpl_names[1] ELSE N_Unknown,
                              fpl_team, NoPlayerMatchReason)
        calls == IF TeamMissing(fpl_team, team_mapping) THEN 0
                 ELSE IF sm_candidates = <<>> THEN 0
                 ELSE match_result.calls
    IN  [out EXCEPT !.i = @ + 1,
                    !.scored = Append(@, calls),
                    !.appended =
                        Append(@, [rows |-> Len(out.crosswalk_rows) - Len(st.crosswalk_rows),
                                   reports |-> Len(out.unmatched_players)
                                               - Len(st.unmatched_players)])]

\* a mutant of MatchPlayerStep: an SM player already in crosswalk_rows is no
\* longer a candidate
MatchPlayerDedup(st, fpl_player) ==
    LET taken == {st.crosswalk_rows[k].sm_player_id : k \in 1..Len(st.crosswalk_rows)}
    IN  MatchPlayerOn(st, fpl_player,
            [t \in DOMAIN sm_team_index |->
                SelectSeq(sm_team_index[t], LAMBDA q : q.player_id \notin taken)])

\* lines 209-254, one pass of the loop
MatchPlayerStep(st, fpl_player) == MatchPlayerOn(st, fpl_player, sm_team_index)

\* the name texts of the rows given
FplNames(rows) == UNION {Range(get_fpl_name_variants(rows[i])) : i \in 1..Len(rows)}

SmNames(rows) == UNION {Range(get_sm_name_variants(rows[i])) : i \in 1..Len(rows)}

\* the WRatio tables on the player names: the threshold itself is reached
\* through the full name, the web name scores below or above it
PlayerScoreTables(A, B) ==
    {w \in ScoreTables(A, B) :
        \A x \in A \X B : x[1] = N_B => w[x] # PLAYER_MATCH_THRESHOLD}

PlayersInit ==
    /\ RestIdle
    /\ ParseIdle
    /\ kpc = "index"
    /\ fpl_teams = <<>>
    /\ sm_teams = <<>>
    /\ unmatched = <<>>
    /\ team_mapping \in TeamMappings
    /\ \E rows \in UNION {[1..n -> FplRows] : n \in 1..MaxPlayers} :
          fpl_players = NumberedRows(rows, "id")
    /\ \E rows \in UNION {[1..n -> SmRows] : n \in 1..MaxPlayers} :
          sm_players = NumberedRows(rows, "player_id")
    /\ wratio \in PlayerScoreTables(FplNames(fpl_players), SmNames(sm_players))
    /\ sm_team_index = <<>>
    /\ loop = LoopIdle

\* lines 201-207
BuildIndex ==
    /\ kpc = "index"
    /\ sm_team_index' = build_sm_team_index(sm_players)
    /\ kpc' = "players"
    /\ UNCHANGED <<restVars, tableVars, typeVars, headVars, scrapeVars, fpl_teams, sm_teams,
                   wratio, team_mapping, unmatched, fpl_players, sm_players, loop>>

\* lines 209-254, one pass of the loop
MatchPlayer ==
    /\ kpc = "players"
    /\ loop.i < Len(fpl_players)
    /\ loop' = MatchPlayerStep(loop, fpl_players[loop.i + 1])
    /\ UNCHANGED <<restVars, tableVars, typeVars, headVars, scrapeVars, kpc, fpl_teams,
                   sm_teams, wratio, team_mapping, unmatched, fpl_players,
                   sm_players, sm_team_index>>

\* lines 256-270: the loop is over, the statistics are logged
PlayersFinish ==
    /\ kpc = "players"
    /\ loop.i = Len(fpl_players)
    /\ kpc' = "done"
    /\ UNCHANGED <<restVars, tableVars, typeVars, headVars, scrapeVars, fpl_teams, sm_teams,
                   wratio, team_mapping, unmatched, fpl_players, sm_players,
                   sm_team_index, loop>>

PlayersNext ==
    \/ BuildIndex
    \/ MatchPlayer
    \/ PlayersFinish

SpecPlayers == PlayersInit /\ [][PlayersNext]_vars

(***************************************************************************)
(* Claims on the player matching.                                          *)
(***************************************************************************)
\* the FPL players the loop has processed
Processed == 1..loop.i

RECURSIVE RowsThrough(_)
\* the number of crosswalk rows appended by the passes 1..i
RowsThrough(i) == IF i = 0 THEN 0 ELSE RowsThrough(i - 1) + loop.appended[i].rows

RECURSIVE ReportsThrough(_)
\* the number of unmatched reports appended by the passes 1..i
ReportsThrough(i) ==
    IF i = 0 THEN 0 ELSE ReportsThrough(i - 1) + loop.appended[i].reports

GotRow(i) == loop.appended[i].rows = 1 /\ loop.appended[i].reports = 0

GotReport(i) == loop.appended[i].rows = 0 /\ loop.appended[i].reports = 1

RowOf(i) == loop.crosswalk_rows[RowsThrough(i)]

ReportOf(i) == loop.unmatched_players[ReportsThrough(i)]

\* the team of the record is absent from the team mapping
TeamAbsent(i) == fpl_players[i].team_name \notin DOMAIN team_mapping

\* the source-B records of the mapped team, in source-B order
Pool(i) ==
    SelectSeq(sm_players,
              LAMBDA q : q.team_name = team_mapping[fpl_players[i].team_name])

VariantsA(i) == Range(get_fpl_name_variants(fpl_players[i]))

VariantsB(q) == Range(get_sm_name_variants(q))

\* the candidates of the pool that have a name to score
Scorable(i) == {k \in 1..Len(Pool(i)) : VariantsB(Pool(i)[k]) # {}}

\* the best score of candidate k over all pairs of name variants
CandScore(i, k) ==
    LET all == {wratio[<<a, b>>] : a \in VariantsA(i), b \in VariantsB(Pool(i)[k])}
    IN  CHOOSE v \in all : \A u \in all : u <= v

\* C16: find_best_match returns the candidate whose best score over all
\* (source-A variant x candidate variant) pairs is the highest of the pool,
\* provided that score >= threshold; of several candidates with the highest
\* score the earliest in source-B order; no match when no candidate reaches
\* the threshold. No crosswalk row comes from a score below the threshold.
C16_BestCandidateFirstOnTies ==
    \A i \in Processed :
        IF TeamAbsent(i) THEN loop.appended[i].rows = 0 ELSE
        LET pool     == Pool(i)
            scorable == Scorable(i)
            score    == [k \in scorable |-> CandScore(i, k)]
            reaching == {k \in scorable : score[k] >= PLAYER_MATCH_THRESHOLD}
            best     == CHOOSE k \in reaching :
                            \A j \in reaching :
                                score[j] < score[k] \/ (score[j] = score[k] /\ k <= j)
        IN  /\ pool # <<>> =>
                  IF VariantsA(i) # {} /\ reaching # {}
                  THEN /\ GotRow(i)
                       /\ RowOf(i).fpl_player_id = fpl_players[i].id
                       /\ RowOf(i).sm_player_id = pool[best].player_id
                  ELSE GotReport(i)
            /\ loop.appended[i].rows > 0 =>
                  \E k \in reaching : pool[k].player_id = RowOf(i).sm_player_id

\* two candidates reach the same highest score through different variants
\* and the first of them is the match
C16_Witness ==
    \E i \in Processed :
        /\ ~TeamAbsent(i)
        /\ Scorable(i) = {1, 2}
        /\ VariantsA(i) = {N_A, N_B}
        /\ wratio[<<N_A, N_C>>] = 79
        /\ wratio[<<N_B, N_C>>] = 95
        /\ CandScore(i, 1) = 95
        /\ CandScore(i, 2) = 95
        /\ VariantsB(Pool(i)[1]) # VariantsB(Pool(i)[2])
        /\ GotRow(i)
        /\ RowOf(i).sm_player_id = Pool(i)[1].player_id

\* the reason the stages give: team absent, then empty pool, then no match
StageReason(i, no_candidates) ==
    IF TeamAbsent(i) THEN "no team"
    ELSE IF Pool(i) = <<>> THEN no_candidates
    ELSE "no player match"

C18_NamelessAlwaysNoPlayerMatch ==
    \A i \in Processed : VariantsA(i) = {} =>
        /\ GotReport(i)
        /\ loop.scored[i] = 0
        /\ ReportOf(i).reason = "no player match"

\* C18, as the code has it: a source-A record with no name variants is never
\* matched and no candidate is scored for it; its reason is the one of the
\* first stage that fails: 'no team' when its team is missing from the
\* mapping, 'no SM candidates' when the mapped team's pool is empty, and
\* 'no player match' (reported under the name 'unknown') otherwise.
C18_NamelessUnmatchedByStage ==
    \A i \in Processed : VariantsA(i) = {} =>
        /\ GotReport(i)
        /\ loop.scored[i] = 0
        /\ ReportOf(i).reason = StageReason(i, "no SM candidates")
        /\ ReportOf(i).reason = "no player match" => ReportOf(i).name = N_Unknown

\* a record without names, of a mapped team with a named candidate, is
\* reported 'no player match' and nothing was scored
C18_Witness ==
    \E i \in Processed :
        /\ VariantsA(i) = {}
        /\ ~TeamAbsent(i)
        /\ Scorable(i) # {}
        /\ GotReport(i)
        /\ loop.scored[i] = 0
        /\ ReportOf(i).reason = "no player match"

PlayersRunning == kpc \in {"players", "done"}

\* C19: after any prefix of the loop every source-A record processed so far
\* has produced exactly one outcome, one crosswalk row or one unmatched
\* report; at the end rows + reports = number of source-A records, the
\* matched/unmatched counters equal the two lengths, and no source-A record
\* has more than one crosswalk row.
C19_OneOutcomePerRecord ==
    PlayersRunning =>
        /\ Len(loop.appended) = loop.i
        /\ \A i \in Processed : GotRow(i) \/ GotReport(i)
        /\ Len(loop.crosswalk_rows) + Len(loop.unmatched_players) = loop.i
        /\ loop.matched = Len(loop.crosswalk_rows)
        /\ loop.unmatched = Len(loop.unmatched_players)
        /\ \A a, b \in 1..Len(loop.crosswalk_rows) :
              a # b => loop.crosswalk_rows[a].fpl_player_id
                       # loop.crosswalk_rows[b].fpl_player_id
        /\ kpc = "done" =>
              Len(loop.crosswalk_rows) + Len(loop.unmatched_players) = Len(fpl_players)

\* the loop ended with one record matched and one reported
C19_Witness ==
    /\ kpc = "done"
    /\ Len(fpl_players) = 2
    /\ loop.matched = 1
    /\ loop.unmatched = 1
    /\ GotRow(2)

\* the outcome of the loop run on the record alone
Alone(i) == MatchPlayerStep(LoopIdle, fpl_players[i])

\* C20: the outcome for a source-A record depends only on that record, the
\* team mapping and the source-B pool, never on the records processed before
\* it: it is the outcome of the record processed alone; a matched source-B
\* candidate stays in the pool, so two source-A records with the same best
\* candidate both receive it.
C20_OutcomeIndependentOfOthers ==
    \A i \in Processed :
        LET alone == Alone(i)
        IN  /\ Len(alone.crosswalk_rows) = loop.appended[i].rows
            /\ Len(alone.unmatched_players) = loop.appended[i].reports
            /\ GotRow(i) =>
                  /\ RowOf(i).sm_player_id = alone.crosswalk_rows[1].sm_player_id
                  /\ \A j \in Processed :
                        [fpl_players[j] EXCEPT !.id = 0] = [fpl_players[i] EXCEPT !.id = 0]
                        => GotRow(j) /\ RowOf(j).sm_player_id = RowOf(i).sm_player_id
            /\ GotReport(i) =>
                  ReportOf(i).reason = alone.unmatched_players[1].reason

\* two source-A records received the same source-B record
C20_Witness ==
    /\ kpc = "done"
    /\ loop.i = 2
    /\ GotRow(1)
    /\ GotRow(2)
    /\ RowOf(1).fpl_player_id # RowOf(2).fpl_player_id
    /\ RowOf(1).sm_player_id = RowOf(2).sm_player_id

(***************************************************************************)
(* SpecMain: crosswalk_player_id.main from the two queried tables to the   *)
(* stored crosswalk table: the check of the source tables, the team        *)
(* matching of SpecTeams, the player loop of SpecPlayers, the storing.     *)
(***************************************************************************)
MaxRoster == 1

\* the non-empty team names of the rows, as main collects them
TeamNamesOf(rows) == {rows[i].team_name : i \in 1..Len(rows)} \ {""}

\* list(set(...)): the names in any order
ListOfSet(S) == {q \in DistinctSeqs(S, Cardinality(S)) : Range(q) = S}

\* line 184
ErrSourcesEmpty == "One or both source tables are empty"

MainInit ==
    /\ ParseIdle
    /\ GameweekIdle
    /\ OverallIdle
    /\ FetchIdle
    /\ RunIdle
    /\ main_exc = "none"
    /\ db_calls = <<>>
    /\ db_table = PreviousTable
    /\ kpc = "main"
    /\ fpl_teams = <<>>
    /\ sm_teams = <<>>
    /\ unmatched = <<>>
    /\ team_mapping = <<>>
    /\ \E rows \in UNION {[1..n -> FplRows] : n \in 0..MaxRoster} :
          fpl_players = NumberedRows(rows, "id")
    /\ \E rows \in UNION {[1..n -> SmRows] : n \in 0..MaxRoster} :
          sm_players = NumberedRows(rows, "player_id")
    /\ wratio \in ScoreTables(TeamNamesOf(fpl_players), TeamNamesOf(sm_players))
    /\ wratio_players \in PlayerScoreTables(FplNames(fpl_players),
                                            SmNames(sm_players))
    /\ sm_team_index = <<>>
    /\ loop = LoopIdle

\* lines 177-196: the source tables are queried and checked, the team names
\* are collected
MainCheckSources ==
    /\ kpc = "main"
    /\ IF fpl_players = <<>> \/ sm_players = <<>>
       THEN /\ kpc' = "raised"
            /\ main_exc' = ErrSourcesEmpty
            /\ UNCHANGED <<fpl_teams, sm_teams>>
       ELSE /\ kpc' = "teams"
            /\ main_exc' = main_exc
            /\ fpl_teams' \in ListOfSet(TeamNamesOf(fpl_players))
            /\ sm_teams' \in ListOfSet(TeamNamesOf(sm_players))
    /\ UNCHANGED <<gameweekVars, overallVars, fetchVars, runVars, tableVars, typeVars, headVars, scrapeVars, wratio, team_mapping,
                   unmatched, fpl_players, sm_players, sm_team_index, loop,
                   db_calls, db_table, wratio_players>>

\* lines 198-199: match_team_names returned the mapping; from here on the
\* scorer is applied to player names
MainTeamsMatched ==
    /\ kpc = "returned"
    /\ kpc' = "index"
    /\ loop' = LoopIdle
    /\ wratio' = wratio_players
    /\ UNCHANGED <<gameweekVars, overallVars, fetchVars, runVars, tableVars, typeVars, headVars, scrapeVars, fpl_teams, sm_teams,
                   team_mapping, unmatched, fpl_players, sm_players,
                   sm_team_index, mainVars>>

\* lines 272-285: nothing is stored without rows, else the table is replaced
MainStore ==
    /\ kpc = "done"
    /\ kpc' = "end"
    /\ IF loop.crosswalk_rows = <<>>
       THEN /\ db_calls' = db_calls \o <<"close">>
            /\ db_table' = db_table
       ELSE /\ db_calls' = db_calls \o <<"drop_table", "create_table", "insert", "close">>
            /\ db_table' = loop.crosswalk_rows
    /\ UNCHANGED <<gameweekVars, overallVars, fetchVars, runVars, tableVars, typeVars, headVars, scrapeVars, fpl_teams, sm_teams,
                   wratio, team_mapping, unmatched, fpl_players, sm_players,
                   sm_team_index, loop, main_exc, wratio_players>>

MainNext ==
    \/ MainCheckSources
    \/ MatchTeam
    \/ TeamsFinish
    \/ MainTeamsMatched
    \/ BuildIndex
    \/ MatchPlayer
    \/ PlayersFinish
    \/ MainStore

SpecMain == MainInit /\ [][MainNext]_vars

(***************************************************************************)
(* Claims on main.                                                         *)
(***************************************************************************)
MainOver == kpc \in {"end", "raised"}

\* the run has no crosswalk row to give: the FPL roster is empty, or the loop
\* went through every FPL player without a match
NoEntries ==
    \/ fpl_players = <<>>
    \/ /\ kpc \in {"done", "end"}
       /\ loop.crosswalk_rows = <<>>

\* C21: a crosswalk run that yields no entries (every FPL player unmatched,
\* or an empty FPL roster) ends normally without raising, with one unmatched
\* report per FPL player, and leaves the stored crosswalk table untouched:
\* not dropped, not recreated, no row written.
C21_NoEntriesIsNotAnError ==
    MainOver /\ NoEntries =>
        /\ kpc = "end"
        /\ main_exc = "none"
        /\ Len(loop.unmatched_players) = Len(fpl_players)
        /\ db_table = PreviousTable
        /\ Range(db_calls) \cap {"drop_table", "create_table", "insert"} = {}

(***************************************************************************)
(* SpecGameweek: the player loop of fpl_player_gameweek.main (lines        *)
(* 71-120): the reference schema set by the first frame, the check of      *)
(* validate_column_schema on the later ones, the insert.                   *)
(***************************************************************************)
MaxBatch == 3

\* the columns of history_df after process_player_history, key first
ColumnLists ==
    {<<"pk", "a", "b">>, <<"pk", "a", "c">>, <<"pk", "a">>, <<"pk", "a", "b", "c">>}

\* what api.get_player_summary and process_player_history give for a player:
\* an exception, no history, or a frame with these columns
PlayerInputs ==
    {[summary |-> "raises", columns |-> <<>>],
     [summary |-> "empty", columns |-> <<>>]}
    \cup {[summary |-> "history", columns |-> c] : c \in ColumnLists}

\* validate_column_schema lines 8-12: the condition of the raise
ColumnCountMismatch(columns, reference_columns) ==
    Len(columns) # Len(reference_columns)

GameweekInit ==
    /\ ParseIdle
    /\ CrosswalkIdle
    /\ MainIdle
    /\ OverallIdle
    /\ FetchIdle
    /\ RunIdle
    /\ gpc = "loop"
    /\ gw_players \in UNION {[1..n -> PlayerInputs] : n \in 1..MaxBatch}
    /\ state = StateIdle
    /\ gw_inserts = <<>>
    /\ gw_errors = <<>>

\* lines 74-118, one pass of the loop
GwPlayer ==
    /\ gpc = "loop"
    /\ state.idx < Len(gw_players)
    /\ LET player  == gw_players[state.idx + 1]
           columns == player.columns
           next    == [state EXCEPT !.idx = @ + 1]
       IN  IF player.summary = "raises"
           THEN /\ state' = next
                /\ gw_errors' = Append(gw_errors, state.idx)
                /\ gw_inserts' = gw_inserts
           ELSE IF player.summary = "empty"
           THEN /\ state' = next
                /\ UNCHANGED <<gw_inserts, gw_errors>>
           ELSE IF state.reference_columns # <<>>
                   /\ ColumnCountMismatch(columns, state.reference_columns)
           THEN /\ state' = next
                /\ gw_errors' = Append(gw_errors, state.idx)
                /\ gw_inserts' = gw_inserts
           ELSE LET reference == IF state.reference_columns = <<>>
                                 THEN columns ELSE state.reference_columns
                IN  /\ state' = [next EXCEPT !.reference_columns = reference,
                                             !.table_created = TRUE,
                                             !.total_rows = @ + 1]
                    /\ gw_inserts' = Append(gw_inserts,
                                            [player |-> state.idx,
                                             scraped |-> columns,
                                             column_names |-> reference])
                    /\ gw_errors' = gw_errors
    /\ UNCHANGED <<fetchVars, runVars, tableVars, typeVars, sideVars, mainVars, overallVars, gpc,
                   gw_players>>

\* lines 120-125
GwFinish ==
    /\ gpc = "loop"
    /\ state.idx = Len(gw_players)
    /\ gpc' = "done"
    /\ UNCHANGED <<fetchVars, runVars, tableVars, typeVars, sideVars, mainVars, overallVars,
                   gw_players, state, gw_inserts, gw_errors>>

GameweekNext ==
    \/ GwPlayer
    \/ GwFinish

SpecGameweek == GameweekInit /\ [][GameweekNext]_vars

\* C22: once the reference column list is set by the first processed table,
\* every later table whose rows are inserted has a scraped column list equal
\* to the reference in count and names; a later table that differs is
\* rejected with an error and inserts nothing, and its columns are never
\* renamed to the reference names; the reference is the first inserted
\* table's list and does not change.
C22_SchemaDriftIsRaised ==
    /\ \A k \in 1..Len(gw_inserts) :
          /\ gw_inserts[k].scraped = state.reference_columns
          /\ gw_inserts[k].column_names = gw_inserts[k].scraped
    /\ gw_inserts # <<>> => state.reference_columns = gw_inserts[1].scraped
    /\ \A i \in 1..state.idx :
          /\ gw_players[i].summary = "history"
          /\ state.reference_columns # <<>>
          /\ gw_players[i].columns # state.reference_columns
          => (i - 1) \in Range(gw_errors)

(***************************************************************************)
(* SpecOverall: sm_player_overall.main (lines 41-109): per team the        *)
(* request of its players, per player the request of its statistics, then  *)
(* one insert of all the rows collected.                                   *)
(***************************************************************************)
MaxItems == 2

\* a player of the list: without player_id, or what
\* api.get_player_statistics gives for it
PlayerFetches == {"no_id", "stats", "raises"}

\* a team of api.get_teams(): without id, or whether
\* api.get_players_by_team answers, and its players
TeamInputs ==
    {[players_by_team |-> "no_id", players |-> <<>>]}
    \cup {[players_by_team |-> f, players |-> q] :
              f \in {"players", "raises"},
              q \in UNION {[1..n -> PlayerFetches] : n \in 0..MaxItems}}

\* the positions of the players of the team whose request gave this
PlayersGiving(team, what) ==
    SelectSeq([k \in 1..Len(team.players) |-> k], LAMBDA k : team.players[k] = what)

\* the rows or logged errors of one team, as (team, player) positions
Positions(t, ks) == [n \in 1..Len(ks) |-> <<t, ks[n]>>]

OverallInit ==
    /\ ParseIdle
    /\ CrosswalkIdle
    /\ MainIdle
    /\ GameweekIdle
    /\ FetchIdle
    /\ RunIdle
    /\ opc = "loop"
    /\ teams \in UNION {[1..n -> TeamInputs] : n \in 1..MaxItems}
    /\ team_i = 0
    /\ all_player_stats = <<>>
    /\ sm_errors = <<>>
    /\ sm_stored = <<>>

\* lines 45-76, one pass of the loop over the teams: the request of line 55
\* is outside the try, the requests of line 65 are inside it
OverallTeam ==
    /\ opc = "loop"
    /\ team_i < Len(teams)
    /\ LET team == teams[team_i + 1]
       IN  IF team.players_by_team = "raises"
           THEN /\ opc' = "raised"
                /\ UNCHANGED <<team_i, all_player_stats, sm_errors>>
           ELSE IF team.players_by_team = "no_id"
           THEN /\ team_i' = team_i + 1
                /\ UNCHANGED <<opc, all_player_stats, sm_errors>>
           ELSE /\ opc' = opc
                /\ team_i' = team_i + 1
                /\ all_player_stats' = all_player_stats
                      \o Positions(team_i + 1, PlayersGiving(team, "stats"))
                /\ sm_errors' = sm_errors
                      \o Positions(team_i + 1, PlayersGiving(team, "raises"))
    /\ UNCHANGED <<fetchVars, runVars, tableVars, typeVars, sideVars, mainVars, gameweekVars, teams,
                   sm_stored>>

\* lines 78-109: without rows nothing is created, else all rows are inserted
OverallStore ==
    /\ opc = "loop"
    /\ team_i = Len(teams)
    /\ opc' = "done"
    /\ sm_stored' = all_player_stats
    /\ UNCHANGED <<fetchVars, runVars, tableVars, typeVars, sideVars, mainVars, gameweekVars, teams,
                   team_i, all_player_stats, sm_errors>>

OverallNext ==
    \/ OverallTeam
    \/ OverallStore

SpecOverall == OverallInit /\ [][OverallNext]_vars

\* the (team, player) positions of the batch whose statistics request answers
\* while the request of the team's players answers too
Processable ==
    {<<t, k>> \in (1..Len(teams)) \X (1..MaxItems + 1) :
        /\ teams[t].players_by_team = "players"
        /\ k <= Len(teams[t].players)
        /\ teams[t].players[k] = "stats"}

\* C23: a batch is best-effort: a failure on one player or one team,
\* a failed request of the team's player list included, is caught and
\* logged, every later team and player is still attempted, the script ends
\* without raising, and the rows of every item that was processed
\* successfully, before and after the failing one, are inserted.
C23_BatchIsBestEffort ==
    /\ opc # "raised"
    /\ opc = "done" =>
          /\ team_i = Len(teams)
          /\ Range(sm_stored) = Processable

(***************************************************************************)
(* SpecFetch: one client instance (SportsRefScraper, FantasyPremierLeague- *)
(* API or SportmonksAPI) and a script that calls its fetcher several       *)
(* times, catching what it raises. Time is in whole seconds; a request     *)
(* takes 0 or 1 second and is answered, answered with a bad status,        *)
(* answered without the expected content, or raises.                       *)
(***************************************************************************)
MaxRetries == 4

MaxCalls == 2

Clients == {"SportsRefScraper", "FantasyPremierLeagueAPI", "SportmonksAPI"}

\* RATE_LIMIT_SECONDS of the three classes
RateLimit(c) ==
    IF c = "SportsRefScraper" THEN 8
    ELSE IF c = "FantasyPremierLeagueAPI" THEN 3
    ELSE 1

\* _wait_for_rate_limit: the seconds slept before the request
RateLimitWait(c, time, last) ==
    IF time - last < RateLimit(c) THEN RateLimit(c) - (time - last) ELSE 0

\* what a request can give: an exception of the transport, a status other
\* than 200, for the scraper a page without the text "table", or the content
Outcomes(c) ==
    {"exception", "status", "content"}
    \cup (IF c = "SportsRefScraper" THEN {"no_table"} ELSE {})

\* a mutant of Acceptable: any answered request is returned
AnyResponse(response) == response # "exception"

\* the response the fetcher returns to its caller
Acceptable(response) == response = "content"

\* SportsRefScraper line 50, FantasyPremierLeagueAPI line 48
SleepTime(c, attempt_no) ==
    IF c = "SportsRefScraper" THEN 10 * (attempt_no + 1)
    ELSE 10 * (2 ^ attempt_no)

\* self._last_request_time = time.time() is reached: the request returned
StampsRequest(response) == response # "exception"

FetchInit ==
    /\ ParseIdle
    /\ CrosswalkIdle
    /\ MainIdle
    /\ GameweekIdle
    /\ OverallIdle
    /\ RunIdle
    /\ fpc = "script"
    /\ client \in Clients
    /\ retries \in 1..MaxRetries
    /\ now = 100
    /\ last_request_time = 0
    /\ f_attempt = 0
    /\ call = NoCall
    /\ issued = <<>>

\* the script calls the fetcher, at once or a second after the last call
ScriptCalls ==
    /\ fpc = "script"
    /\ call.k < MaxCalls
    /\ fpc' = "fetching"
    /\ \E gap \in {0, 1} : now' = now + gap
    /\ f_attempt' = 0
    /\ call' = [NoCall EXCEPT !.k = call.k + 1, !.result = "running"]
    /\ UNCHANGED <<runVars, tableVars, typeVars, sideVars, mainVars, gameweekVars,
                   overallVars, client, retries, last_request_time, issued>>

\* the request and what follows it: _fetch_html lines 35-52 and _fetch_json
\* lines 35-53, one pass of the loop; _make_request lines 107-120
Request ==
    /\ fpc = "fetching"
    /\ client = "SportmonksAPI" \/ f_attempt < retries
    /\ \E response \in Outcomes(client), took \in {0, 1} :
          LET at      == now + RateLimitWait(client, now, last_request_time)
              after   == at + took
              looping == client # "SportmonksAPI"
              last    == f_attempt = retries - 1
              raises  == IF client = "FantasyPremierLeagueAPI" THEN last
                         ELSE client = "SportmonksAPI"
              sleeps  == looping /\ ~raises
              slept   == IF sleeps THEN SleepTime(client, f_attempt) ELSE 0
              made    == [call EXCEPT !.requests = @ + 1,
                                      !.responses = Append(@, response)]
          IN  /\ issued' = IF issued = <<>> THEN <<at>>
                           ELSE <<issued[Len(issued)], at>>
              /\ last_request_time' =
                    IF StampsRequest(response) THEN after ELSE last_request_time
              /\ IF Acceptable(response)
                 THEN /\ call' = [made EXCEPT !.result = "returned"]
                      /\ now' = after
                      /\ fpc' = "script"
                      /\ f_attempt' = f_attempt
                 ELSE /\ call' = [made EXCEPT
                                    !.sleeps = IF sleeps THEN Append(@, slept) ELSE @,
                                    !.result = IF raises THEN "raised" ELSE @]
                      /\ now' = after + slept
                      /\ fpc' = IF raises THEN "script" ELSE "fetching"
                      /\ f_attempt' = IF looping /\ ~raises THEN f_attempt + 1
                                      ELSE f_attempt
    /\ UNCHANGED <<runVars, tableVars, typeVars, sideVars, mainVars, gameweekVars,
                   overallVars, client, retries>>

\* _fetch_html line 54: the loop is over
Exhausted ==
    /\ fpc = "fetching"
    /\ client # "SportmonksAPI"
    /\ f_attempt = retries
    /\ call' = [call EXCEPT !.result = "raised"]
    /\ fpc' = "script"
    /\ UNCHANGED <<runVars, tableVars, typeVars, sideVars, mainVars, gameweekVars,
                   overallVars, client, retries, now, last_request_time,
                   f_attempt, issued>>

FetchNext ==
    \/ ScriptCalls
    \/ Request
    \/ Exhausted

SpecFetch == FetchInit /\ [][FetchNext]_vars

(***************************************************************************)
(* Claims on the fetchers.                                                 *)
(***************************************************************************)
Transient(response) == response \in {"exception", "status"}

\* the backoff waits of the call: each is the one before times one constant
\* factor greater than 1
Geometric(sleeps) ==
    /\ \A n \in 2..Len(sleeps) : sleeps[n] > sleeps[n - 1]
    /\ \A n \in 2..(Len(sleeps) - 1) :
          sleeps[n] * sleeps[n] = sleeps[n - 1] * sleeps[n + 1]

\* C24: every fetcher retries a transient failure (a status other than 200
\* or an exception of the transport) before the error reaches its caller,
\* and the waits between successive attempts grow exponentially, each wait
\* being the previous one times a constant factor greater than 1.
C24_RetriesWithExponentialBackoff ==
    /\ /\ call.result = "raised"
       /\ client = "SportmonksAPI" \/ retries >= 2
       /\ Transient(call.responses[1])
       => call.requests >= 2
    /\ Geometric(call.sleeps)

\* C28: a call of _fetch_html or _fetch_json with retries = N >= 1 issues at
\* most N requests, returns the first acceptable response (status 200, and
\* for _fetch_html the text "table") without a further request, raises when
\* all N attempts failed, and inside the call a step is always possible, so
\* that it ends after at most N passes; an unacceptable response is never
\* returned.
C28_BoundedRetry ==
    client # "SportmonksAPI" =>
        /\ call.requests <= retries
        /\ Len(call.responses) = call.requests
        /\ \A n \in 1..(Len(call.responses) - 1) : call.responses[n] # "content"
        /\ call.result = "returned" =>
              call.responses[Len(call.responses)] = "content"
        /\ call.result = "raised" =>
              /\ call.requests = retries
              /\ \A n \in 1..Len(call.responses) : call.responses[n] # "content"
        /\ call.result = "running" =>
              /\ fpc = "fetching"
              /\ f_attempt = call.requests
              /\ \A n \in 1..Len(call.responses) : call.responses[n] # "content"
              /\ ENABLED (Request \/ Exhausted)

\* the second call of the script returned the content on its third and last
\* attempt, after two failed ones
C28_Witness ==
    /\ client # "SportmonksAPI"
    /\ retries = 3
    /\ call.requests = 3
    /\ call.result = "returned"
    /\ call.k = 2

\* C29: any two consecutive requests of a client instance are at least its
\* rate-limit interval apart (8 s, 3 s, 1 s), whatever the requests gave,
\* the request after an exception that left the client included.
C29_RequestsSpacedByRateLimit ==
    Len(issued) = 2 => issued[2] - issued[1] >= RateLimit(client)

(***************************************************************************)
(* SpecRun: index.run_scripts: the selection is resolved to a list, each   *)
(* script of the list is called inside a try, its name is appended to      *)
(* successful or to failed.                                                *)
(***************************************************************************)
MaxScripts == 2

\* lines 30-33
FPL_SCRIPTS == <<"fpl_events", "fpl_player", "fpl_player_gameweek", "fpl_teams">>

SM_SCRIPTS ==
    <<"sm_player_fixtures", "sm_player_overall", "sm_team_fixtures", "sm_team_overall">>

VIEW_SCRIPTS == <<"mv_player_gameweek">>

ALL_SCRIPTS == FPL_SCRIPTS \o SM_SCRIPTS \o <<"crosswalk_player_id">> \o VIEW_SCRIPTS

\* the keys of SCRIPT_MAP, lines 17-28
SCRIPT_MAP == Range(ALL_SCRIPTS)

\* the names given in a list: two scripts and a name that is no script
ListedNames == {"fpl_events", "crosswalk_player_id", "no_such_script"}

\* the scripts argument: one of the five words, or a list of names
Selections ==
    {[word |-> w, names |-> <<>>] : w \in {"all", "tables", "views", "fpl", "sm"}}
    \cup {[word |-> "list", names |-> q] :
              q \in UNION {[1..n -> ListedNames] : n \in 1..MaxScripts}}

\* lines 54-56
InvalidScripts(selection) ==
    selection.word = "list" /\ Range(selection.names) \ SCRIPT_MAP # {}

\* lines 43-57
ScriptsToRun(selection) ==
    IF selection.word = "all" THEN ALL_SCRIPTS
    ELSE IF selection.word = "tables"
    THEN FPL_SCRIPTS \o SM_SCRIPTS \o <<"crosswalk_player_id">>
    ELSE IF selection.word = "views" THEN VIEW_SCRIPTS
    ELSE IF selection.word = "fpl" THEN FPL_SCRIPTS
    ELSE IF selection.word = "sm" THEN SM_SCRIPTS
    ELSE selection.names

RunInit ==
    /\ ParseIdle
    /\ CrosswalkIdle
    /\ MainIdle
    /\ GameweekIdle
    /\ OverallIdle
    /\ FetchIdle
    /\ rpc = "start"
    /\ scripts \in Selections
    /\ scripts_to_run = <<>>
    /\ outcomes = <<>>
    /\ successful = <<>>
    /\ failed = <<>>

\* lines 42-66
ResolveScripts ==
    /\ rpc = "start"
    /\ IF InvalidScripts(scripts)
       THEN rpc' = "raised" /\ scripts_to_run' = scripts_to_run
       ELSE rpc' = "loop" /\ scripts_to_run' = ScriptsToRun(scripts)
    /\ UNCHANGED <<tableVars, typeVars, sideVars, mainVars, gameweekVars,
                   overallVars, fetchVars, scripts, outcomes, successful, failed>>

\* a mutant of RunOutcome: a script that raised is not recorded
DropsFailure(failed_list, script_name, outcome) == failed_list

\* lines 81-82
RunOutcome(failed_list, script_name, outcome) ==
    IF outcome = "raised" THEN Append(failed_list, script_name) ELSE failed_list

\* lines 68-84, one pass of the loop: the script returns or raises
RunScript ==
    /\ rpc = "loop"
    /\ Len(outcomes) < Len(scripts_to_run)
    /\ \E outcome \in {"returned", "raised"} :
          LET script_name == scripts_to_run[Len(outcomes) + 1]
          IN  /\ outcomes' = Append(outcomes, outcome)
              /\ successful' = IF outcome = "returned"
                               THEN Append(successful, script_name)
                               ELSE successful
              /\ failed' = RunOutcome(failed, script_name, outcome)
    /\ UNCHANGED <<tableVars, typeVars, sideVars, mainVars, gameweekVars,
                   overallVars, fetchVars, rpc, scripts, scripts_to_run>>

\* lines 86-105: the summary is logged
RunSummary ==
    /\ rpc = "loop"
    /\ Len(outcomes) = Len(scripts_to_run)
    /\ rpc' = "done"
    /\ UNCHANGED <<tableVars, typeVars, sideVars, mainVars, gameweekVars,
                   overallVars, fetchVars, scripts, scripts_to_run, outcomes,
                   successful, failed>>

RunNext ==
    \/ ResolveScripts
    \/ RunScript
    \/ RunSummary

SpecRun == RunInit /\ [][RunNext]_vars

(***************************************************************************)
(* Claims on run_scripts.                                                  *)
(***************************************************************************)
\* the scripts at the positions of the list whose call ended this way
EndedAs(what) ==
    LET at == SelectIdx(1, Len(outcomes), [i \in 1..Len(outcomes) |-> outcomes[i] = what])
    IN  [n \in 1..Len(at) |-> scripts_to_run[at[n]]]

\* how many times the name is in the list
Occurrences(name, list) == Cardinality({i \in 1..Len(list) : list[i] = name})

\* C30 (as claimed): every script of the selected list is attempted exactly
\* once, in list order, whatever earlier scripts did; each ends in exactly
\* one of successful / failed, the two lists are disjoint and together are
\* the selected list in order; no exception of a script leaves run_scripts.
C30_EachScriptOnceInOneList ==
    rpc = "done" =>
        /\ Len(outcomes) = Len(scripts_to_run)
        /\ successful = EndedAs("returned")
        /\ failed = EndedAs("raised")
        /\ \A name \in Range(scripts_to_run) :
              Occurrences(name, successful) + Occurrences(name, failed) = 1
        /\ Range(successful) \cap Range(failed) = {}

\* C30 (amended): every entry of the selected list is attempted exactly
\* once, in list order, whatever earlier scripts did; each entry's name is
\* appended to exactly one of successful / failed, which are the entries
\* that returned and the entries that raised, each in list order; a name is
\* in both lists only when it is listed more than once; once the list is
\* resolved, run_scripts ends without raising.
C30_EachEntryOnceInOneList ==
    /\ rpc \in {"loop", "done"} =>
          /\ Len(outcomes) <= Len(scripts_to_run)
          /\ successful = EndedAs("returned")
          /\ failed = EndedAs("raised")
          /\ \A name \in Range(successful) \cap Range(failed) :
                Occurrences(name, scripts_to_run) > 1
          /\ ENABLED (RunScript \/ RunSummary) \/ rpc = "done"
    /\ rpc = "done" => Len(outcomes) = Len(scripts_to_run)
    /\ rpc = "raised" => InvalidScripts(scripts) /\ outcomes = <<>>

\* the whole pipeline was selected, an fpl script and an sm script raised,
\* and crosswalk_player_id and the view were still run
C30_Witness ==
    /\ rpc = "done"
    /\ scripts.word = "all"
    /\ outcomes[3] = "raised"
    /\ outcomes[6] = "raised"
    /\ Len(outcomes) = 10
    /\ "crosswalk_player_id" \in Range(successful)
    /\ "mv_player_gameweek" \in Range(successful)
    /\ failed = <<"fpl_player_gameweek", "sm_player_overall">>

====
